---- MODULE Spec2Model ----
(***************************************************************************)
(* Verification model of the document-ingestion pipeline and the           *)
(* knowledge-graph accumulator of athapong/aio-mcp (package graph).        *)
(*                                                                         *)
(*   KnowledgeGraphGenerator   pkg/graph/knowledge_graph.go                *)
(*   TextPipeline              pkg/graph/pipeline.go (channel-staged) and  *)
(*                             the sequential variant of the same type     *)
(*                                                                         *)
(* Strings whose layout matters (node IDs, relation types, edge IDs) are   *)
(* sequences of one-character strings, so that fmt.Sprintf is modelled as  *)
(* concatenation.  float64 confidences and weights are exact dyadic        *)
(* rationals num / (10 * 2^exp), kept normalised.  Go slices are headers   *)
(* (arr, len, cap) over backing arrays kept in a heap, so that aliasing    *)
(* between the accumulator and a returned snapshot is part of the model.   *)
(***************************************************************************)
EXTENDS Naturals, Sequences, FiniteSets, TLC

\* ------------------------------------------------------------------------
\* Bounds of the model
\* ------------------------------------------------------------------------
MaxEntities == 2
MaxRelations == 2

DocIDs == {"d1", "d2"}
Labels == {"A", "B"}
EntityTypes == {"technology"}
\* relation types as character sequences; one contains the separator of
\* the edge-ID format
DEPENDS_ON == <<"D">>
RelTypes == {DEPENDS_ON, <<"I", "-", "I">>}
\* confidences in tenths: 0.6 and 0.8
Confidences == {6, 8}

EntitySet == [Label : Labels, Type : EntityTypes]
RelationSet == [Type : RelTypes, From : {"A"}, To : {"B"}, Confidence : Confidences]

\* the snapshot specification folds more entities per document, so that a
\* node's Sources has spare capacity when a snapshot is taken
MaxSnapEntities == 3
MaxSnapRelations == 1
SnapRelationSet == [Type : {DEPENDS_ON}, From : {"A"}, To : {"B"}, Confidence : Confidences]

\* ------------------------------------------------------------------------
\* float64 as exact dyadic rationals: [num, exp] stands for num/(10*2^exp)
\* ------------------------------------------------------------------------
RECURSIVE Pow2(_)
Pow2(n) == IF n = 0 THEN 1 ELSE 2 * Pow2(n - 1)

RECURSIVE Normalize(_)
Normalize(w) ==
    IF w.exp > 0 /\ w.num % 2 = 0
    THEN Normalize([num |-> w.num \div 2, exp |-> w.exp - 1])
    ELSE w

Float(tenths) == [num |-> tenths, exp |-> 0]

Max(a, b) == IF a >= b THEN a ELSE b

FloatAdd(a, b) ==
    LET e == Max(a.exp, b.exp)
    IN  Normalize([num |-> a.num * Pow2(e - a.exp) + b.num * Pow2(e - b.exp),
                   exp |-> e])

FloatHalf(a) == Normalize([num |-> a.num, exp |-> a.exp + 1])

\* ------------------------------------------------------------------------
\* Strings and identifiers
\* ------------------------------------------------------------------------
Digits == <<"0", "1", "2", "3", "4", "5", "6", "7", "8", "9">>

\* uuid.New().String(): a fresh identifier of fixed layout per call; the
\* n-th minted identifier is distinct from all earlier ones
UuidString(n) == <<Digits[(n \div 10) + 1], "-", Digits[(n % 10) + 1]>>

\* fmt.Sprintf("%s-%s-%s", sourceNodeID, rel.Type, targetNodeID)
EdgeID(sourceNodeID, type, targetNodeID) ==
    sourceNodeID \o <<"-">> \o type \o <<"-">> \o targetNodeID

\* ------------------------------------------------------------------------
\* Go slices of strings over a heap of backing arrays
\* ------------------------------------------------------------------------
ZeroString == ""

\* []string{x}: a new backing array of length and capacity 1
SliceLiteral(arrays, x) ==
    [arrays |-> Append(arrays, <<x>>),
     slice  |-> [arr |-> Len(arrays) + 1, len |-> 1, cap |-> 1]]

\* a buggy append that reuses the backing array and shifts the new element
\* to the front
WrongAppendString(arrays, s, x) ==
    IF s.len < s.cap
    THEN [arrays |-> [arrays EXCEPT ![s.arr] =
                        [i \in 1..s.cap |->
                            IF i = 1 THEN x
                            ELSE IF i <= s.len + 1 THEN arrays[s.arr][i - 1]
                            ELSE ZeroString]],
          slice  |-> [s EXCEPT !.len = s.len + 1]]
    ELSE LET newcap == IF s.cap = 0 THEN 1 ELSE 2 * s.cap
             newarr == [i \in 1..newcap |->
                          IF i <= s.len THEN arrays[s.arr][i]
                          ELSE IF i = s.len + 1 THEN x ELSE ZeroString]
         IN  [arrays |-> Append(arrays, newarr),
              slice  |-> [arr |-> Len(arrays) + 1, len |-> s.len + 1, cap |-> newcap]]

\* append(s, x): in place when capacity is left, else a doubled copy
AppendString(arrays, s, x) ==
    IF s.len < s.cap
    THEN [arrays |-> [arrays EXCEPT ![s.arr][s.len + 1] = x],
          slice  |-> [s EXCEPT !.len = s.len + 1]]
    ELSE LET newcap == IF s.cap = 0 THEN 1 ELSE 2 * s.cap
             newarr == [i \in 1..newcap |->
                          IF i <= s.len THEN arrays[s.arr][i]
                          ELSE IF i = s.len + 1 THEN x ELSE ZeroString]
         IN  [arrays |-> Append(arrays, newarr),
              slice  |-> [arr |-> Len(arrays) + 1, len |-> s.len + 1, cap |-> newcap]]

\* the strings a slice header denotes
Elems(arrays, s) == [i \in 1..s.len |-> arrays[s.arr][i]]

\* ------------------------------------------------------------------------
\* State of the knowledge-graph accumulator and of the goroutines calling it
\* ------------------------------------------------------------------------
VARIABLES
    g,            \* the KnowledgeGraphGenerator: nodes, edges, documentMap,
                  \* nodeIDMap, with the heap of backing arrays (arrays) and
                  \* the number of identifiers minted so far (minted)
    mutex,        \* g.mutex: [writer, readers]
    kpc,          \* per goroutine: position inside AddDocument / Generate
    kdoc,         \* per goroutine: the document passed to AddDocument, its
                  \* ID and how many elements the running loop has read
    klocal,       \* per goroutine: Generate's local nodes and edges slices
    kret,         \* per goroutine: the error AddDocument last returned
    snap,         \* per goroutine: the *KnowledgeGraphData last returned
    seenLabels,   \* history: labels of the entities folded so far
    obs,          \* history: per (from, type, to) the confidences of the
                  \* relationships folded with both labels known, in order
    dropped,      \* history: the (from, type, to) of relationships read
                  \* while one of their labels had no node
    addedIDs,     \* history: IDs of the documents passed to AddDocument
    entry,        \* history: per goroutine, whether the running AddDocument
                  \* is the first for its ID, and the graph when it began
    snapContent,  \* history: what each returned snapshot held on return
    committed     \* history: the graph contents after each whole AddDocument

kgvars == <<g, mutex, kpc, kdoc, klocal, kret, snap, seenLabels, obs, dropped,
            addedIDs, entry, snapContent, committed>>

Goroutines == {"t1", "t2"}

EmptyMap == [x \in {} |-> x]

NilDoc == [ID |-> "<nil>", read |-> 0]

\* NewKnowledgeGraphGenerator
NewKnowledgeGraphGenerator ==
    [nodes |-> EmptyMap, edges |-> EmptyMap, documentMap |-> {},
     nodeIDMap |-> EmptyMap, arrays |-> <<>>, minted |-> 0]

\* ------------------------------------------------------------------------
\* AddDocument: the steps between Lock and Unlock
\* ------------------------------------------------------------------------
\* a variant that mints a node for every entity, known label or not
WrongAddEntityStep(w, docID, entity) ==
    LET nodeID == UuidString(w.minted)
        lit == SliceLiteral(w.arrays, docID)
        node == [ID |-> nodeID, Label |-> entity.Label, Type |-> entity.Type,
                 Sources |-> lit.slice]
    IN  [w EXCEPT !.minted = @ + 1,
                  !.arrays = lit.arrays,
                  !.nodes = @ @@ (nodeID :> node),
                  !.nodeIDMap = (entity.Label :> nodeID) @@ @]

\* one iteration of the loop over doc.Entities
AddEntityStep(w, docID, entity) ==
    IF entity.Label \notin DOMAIN w.nodeIDMap
    THEN LET nodeID == UuidString(w.minted)
             lit == SliceLiteral(w.arrays, docID)
             node == [ID |-> nodeID, Label |-> entity.Label, Type |-> entity.Type,
                      Sources |-> lit.slice]
         IN  [w EXCEPT !.minted = @ + 1,
                       !.arrays = lit.arrays,
                       !.nodes = @ @@ (nodeID :> node),
                       !.nodeIDMap = @ @@ (entity.Label :> nodeID)]
    ELSE LET nodeID == w.nodeIDMap[entity.Label]
             node == w.nodes[nodeID]
             ap == AppendString(w.arrays, node.Sources, docID)
         IN  [w EXCEPT !.arrays = ap.arrays,
                       !.nodes = [@ EXCEPT ![nodeID].Sources = ap.slice]]

\* a variant that keeps the newest confidence only
WrongAverage(weight, confidence) == confidence

\* edge.Weight = (edge.Weight + rel.Confidence) / 2
Average(weight, confidence) == FloatHalf(FloatAdd(weight, confidence))

\* a variant that folds a relationship whatever its endpoints
WrongRelationResolves(w, rel) == TRUE

\* sourceExists && targetExists
RelationResolves(w, rel) ==
    rel.From \in DOMAIN w.nodeIDMap /\ rel.To \in DOMAIN w.nodeIDMap

\* nodeID, exists := g.nodeIDMap[label]: the zero string when absent
LookupNodeID(w, label) ==
    IF label \in DOMAIN w.nodeIDMap THEN w.nodeIDMap[label] ELSE <<>>

\* a variant that stores every observation under an ID of its own
WrongAddRelationStep(w, rel) ==
    IF ~RelationResolves(w, rel)
    THEN w
    ELSE LET sourceNodeID == LookupNodeID(w, rel.From)
             targetNodeID == LookupNodeID(w, rel.To)
             edgeID == EdgeID(sourceNodeID, rel.Type, targetNodeID)
                          \o <<Digits[Cardinality(DOMAIN w.edges) + 1]>>
         IN  [w EXCEPT !.edges = @ @@ (edgeID :>
                 [ID |-> edgeID, Source |-> sourceNodeID,
                  Target |-> targetNodeID, Type |-> rel.Type,
                  Properties |-> [confidence |-> Float(rel.Confidence)],
                  Weight |-> Float(rel.Confidence)])]

\* one iteration of the loop over doc.Relations
AddRelationStep(w, rel) ==
    IF ~RelationResolves(w, rel)
    THEN w
    ELSE LET sourceNodeID == LookupNodeID(w, rel.From)
             targetNodeID == LookupNodeID(w, rel.To)
             edgeID == EdgeID(sourceNodeID, rel.Type, targetNodeID)
         IN  IF edgeID \notin DOMAIN w.edges
             THEN [w EXCEPT !.edges = @ @@ (edgeID :>
                     [ID |-> edgeID, Source |-> sourceNodeID,
                      Target |-> targetNodeID, Type |-> rel.Type,
                      Properties |-> [confidence |-> Float(rel.Confidence)],
                      Weight |-> Float(rel.Confidence)])]
             ELSE [w EXCEPT !.edges[edgeID].Weight =
                     Average(@, Float(rel.Confidence))]

\* a variant that forgets to record the document ID
WrongMarkDocument(w, docID) == w

\* g.documentMap[doc.ID] = true
MarkDocument(w, docID) == [w EXCEPT !.documentMap = @ \cup {docID}]

\* ------------------------------------------------------------------------
\* Generate: value copies of the nodes and edges.  Map iteration order is
\* unspecified, so the two slices are modelled up to order, as the sets of
\* their elements.  GeneratedAt (time.Now) is left out.
\* ------------------------------------------------------------------------
NodesOf(w) == {w.nodes[id] : id \in DOMAIN w.nodes}
EdgesOf(w) == {w.edges[id] : id \in DOMAIN w.edges}

\* what a list of Node values shows to its holder: slice headers read
\* through the heap
NodeContent(arrays, n) ==
    [ID |-> n.ID, Label |-> n.Label, Type |-> n.Type,
     Sources |-> Elems(arrays, n.Sources)]

Content(arrays, data) ==
    [Nodes |-> {NodeContent(arrays, n) : n \in data.Nodes}, Edges |-> data.Edges]

GraphContent(w) == Content(w.arrays, [Nodes |-> NodesOf(w), Edges |-> EdgesOf(w)])

NoData == [Nodes |-> {}, Edges |-> {}]

\* ------------------------------------------------------------------------
\* g.mutex (sync.RWMutex)
\* ------------------------------------------------------------------------
\* a variant of RLock that does not wait for the writer
WrongCanRLock(m) == TRUE

CanRLock(m) == m.writer = "none"

CanLock(m) == m.writer = "none" /\ m.readers = {}

\* ------------------------------------------------------------------------
\* Actions of the accumulator.  A document is read element by element as
\* the two loops of AddDocument run over it: the ID is fixed at the call,
\* each iteration draws the next entity or relationship, and the next-state
\* relations below bound the number of elements of a document.
\* ------------------------------------------------------------------------
NilID == "<nil>"

NoEntry == [first |-> FALSE, graph |-> NoData]

KGInit ==
    /\ g = NewKnowledgeGraphGenerator
    /\ mutex = [writer |-> "none", readers |-> {}]
    /\ kpc = [t \in Goroutines |-> "idle"]
    /\ kdoc = [t \in Goroutines |-> NilDoc]
    /\ klocal = [t \in Goroutines |-> NoData]
    /\ kret = [t \in Goroutines |-> "nil"]
    /\ snap = [t \in Goroutines |-> NoData]
    /\ seenLabels = {}
    /\ obs = EmptyMap
    /\ dropped = {}
    /\ addedIDs = {}
    /\ entry = [t \in Goroutines |-> NoEntry]
    /\ snapContent = [t \in Goroutines |-> NoData]
    /\ committed = {NoData}

\* g.mutex.Lock() at the head of AddDocument(doc)
AddLock(t, id) ==
    /\ kpc[t] = "idle"
    /\ CanLock(mutex)
    /\ mutex' = [mutex EXCEPT !.writer = t]
    /\ kdoc' = [kdoc EXCEPT ![t] = [ID |-> id, read |-> 0]]
    /\ kpc' = [kpc EXCEPT ![t] = "add_check"]
    /\ entry' = [entry EXCEPT ![t] =
                    [first |-> id # NilID /\ id \notin addedIDs,
                     graph |-> GraphContent(g)]]
    /\ addedIDs' = IF id = NilID THEN addedIDs ELSE addedIDs \cup {id}
    /\ UNCHANGED <<g, klocal, kret, snap, seenLabels, obs, dropped, snapContent, committed>>

\* the nil check and the documentMap check
AddCheck(t) ==
    /\ kpc[t] = "add_check"
    /\ IF kdoc[t].ID = NilID
       THEN /\ kret' = [kret EXCEPT ![t] = "cannot add nil document to graph"]
            /\ kpc' = [kpc EXCEPT ![t] = "add_unlock"]
            /\ g' = g
       ELSE IF kdoc[t].ID \in g.documentMap
       THEN /\ kret' = [kret EXCEPT ![t] = "nil"]
            /\ kpc' = [kpc EXCEPT ![t] = "add_unlock"]
            /\ g' = g
       ELSE /\ g' = MarkDocument(g, kdoc[t].ID)
            /\ kpc' = [kpc EXCEPT ![t] = "add_entities"]
            /\ kret' = kret
    /\ UNCHANGED <<mutex, kdoc, klocal, snap, seenLabels, obs, dropped, addedIDs, entry,
                   snapContent, committed>>

\* for _, entity := range doc.Entities: one iteration
AddEntity(t, entity) ==
    /\ kpc[t] = "add_entities"
    /\ g' = AddEntityStep(g, kdoc[t].ID, entity)
    /\ kdoc' = [kdoc EXCEPT ![t].read = @ + 1]
    /\ seenLabels' = seenLabels \cup {entity.Label}
    /\ UNCHANGED <<mutex, kpc, klocal, kret, snap, obs, dropped, addedIDs, entry,
                   snapContent, committed>>

\* the loop over doc.Entities ends
AddEntitiesDone(t) ==
    /\ kpc[t] = "add_entities"
    /\ kpc' = [kpc EXCEPT ![t] = "add_relations"]
    /\ kdoc' = [kdoc EXCEPT ![t].read = 0]
    /\ UNCHANGED <<g, mutex, klocal, kret, snap, seenLabels, obs, dropped, addedIDs, entry,
                   snapContent, committed>>

Observe(o, rel) ==
    LET key == <<rel.From, rel.Type, rel.To>>
    IN  IF rel.From \notin seenLabels \/ rel.To \notin seenLabels THEN o
        ELSE IF key \in DOMAIN o
             THEN [o EXCEPT ![key] = Append(@, rel.Confidence)]
             ELSE o @@ (key :> <<rel.Confidence>>)

\* for _, rel := range doc.Relations: one iteration
AddRelation(t, rel) ==
    /\ kpc[t] = "add_relations"
    /\ g' = AddRelationStep(g, rel)
    /\ kdoc' = [kdoc EXCEPT ![t].read = @ + 1]
    /\ obs' = Observe(obs, rel)
    /\ dropped' = IF rel.From \notin seenLabels \/ rel.To \notin seenLabels
                  THEN dropped \cup {<<rel.From, rel.Type, rel.To>>}
                  ELSE dropped
    /\ UNCHANGED <<mutex, kpc, klocal, kret, snap, seenLabels, addedIDs, entry,
                   snapContent, committed>>

\* the loop over doc.Relations ends: return nil
AddRelationsDone(t) ==
    /\ kpc[t] = "add_relations"
    /\ kpc' = [kpc EXCEPT ![t] = "add_unlock"]
    /\ kret' = [kret EXCEPT ![t] = "nil"]
    /\ UNCHANGED <<g, mutex, kdoc, klocal, snap, seenLabels, obs, dropped, addedIDs, entry,
                   snapContent, committed>>

\* defer g.mutex.Unlock(): AddDocument returns
AddUnlock(t) ==
    /\ kpc[t] = "add_unlock"
    /\ mutex' = [mutex EXCEPT !.writer = "none"]
    /\ kpc' = [kpc EXCEPT ![t] = "idle"]
    /\ kdoc' = [kdoc EXCEPT ![t] = NilDoc]
    /\ entry' = [entry EXCEPT ![t] = NoEntry]
    /\ committed' = committed \cup {GraphContent(g)}
    /\ UNCHANGED <<g, klocal, kret, snap, seenLabels, obs, dropped, addedIDs, snapContent>>

\* g.mutex.RLock() at the head of Generate
GenRLock(t) ==
    /\ kpc[t] = "idle"
    /\ CanRLock(mutex)
    /\ mutex' = [mutex EXCEPT !.readers = @ \cup {t}]
    /\ kpc' = [kpc EXCEPT ![t] = "gen_nodes"]
    /\ UNCHANGED <<g, kdoc, klocal, kret, snap, seenLabels, obs, dropped, addedIDs, entry,
                   snapContent, committed>>

\* the loop copying g.nodes into the local slice
GenNodes(t) ==
    /\ kpc[t] = "gen_nodes"
    /\ klocal' = [klocal EXCEPT ![t] = [Nodes |-> NodesOf(g), Edges |-> {}]]
    /\ kpc' = [kpc EXCEPT ![t] = "gen_edges"]
    /\ UNCHANGED <<g, mutex, kdoc, kret, snap, seenLabels, obs, dropped, addedIDs, entry,
                   snapContent, committed>>

\* the loop copying g.edges into the local slice
GenEdges(t) ==
    /\ kpc[t] = "gen_edges"
    /\ klocal' = [klocal EXCEPT ![t].Edges = EdgesOf(g)]
    /\ kpc' = [kpc EXCEPT ![t] = "gen_return"]
    /\ UNCHANGED <<g, mutex, kdoc, kret, snap, seenLabels, obs, dropped, addedIDs, entry,
                   snapContent, committed>>

\* return &KnowledgeGraphData{...} and the deferred RUnlock
GenReturn(t) ==
    /\ kpc[t] = "gen_return"
    /\ mutex' = [mutex EXCEPT !.readers = @ \ {t}]
    /\ snap' = [snap EXCEPT ![t] = klocal[t]]
    /\ snapContent' = [snapContent EXCEPT ![t] = Content(g.arrays, klocal[t])]
    /\ klocal' = [klocal EXCEPT ![t] = NoData]
    /\ kpc' = [kpc EXCEPT ![t] = "idle"]
    /\ UNCHANGED <<g, kdoc, kret, seenLabels, obs, dropped, addedIDs, entry, committed>>

\* goroutines calling AddDocument and goroutines calling Generate
Writers == {"t1"}
Readers == {"t2"}

KGNext ==
    \/ \E t \in Writers :
        \/ \E id \in DocIDs \cup {NilID} : AddLock(t, id)
        \/ AddCheck(t)
        \/ \E entity \in EntitySet :
              kdoc[t].read < MaxEntities /\ AddEntity(t, entity)
        \/ AddEntitiesDone(t)
        \/ \E rel \in RelationSet :
              kdoc[t].read < MaxRelations /\ AddRelation(t, rel)
        \/ AddRelationsDone(t)
        \/ AddUnlock(t)
    \/ \E t \in Readers :
        \/ GenRLock(t)
        \/ GenNodes(t)
        \/ GenEdges(t)
        \/ GenReturn(t)

SnapNext ==
    \/ \E t \in Writers :
        \/ \E id \in DocIDs : AddLock(t, id)
        \/ AddCheck(t)
        \/ \E entity \in EntitySet :
              kdoc[t].read < MaxSnapEntities /\ AddEntity(t, entity)
        \/ AddEntitiesDone(t)
        \/ \E rel \in SnapRelationSet :
              kdoc[t].read < MaxSnapRelations /\ AddRelation(t, rel)
        \/ AddRelationsDone(t)
        \/ AddUnlock(t)
    \/ \E t \in Readers :
        \/ GenRLock(t)
        \/ GenNodes(t)
        \/ GenEdges(t)
        \/ GenReturn(t)

\* ------------------------------------------------------------------------
\* TextPipeline: processors, errors and documents
\* ------------------------------------------------------------------------
MaxProcessors == 3

ProcessorIDs == {"p1", "p2"}
Causes == {<<"e1">>, <<"e2">>}

NoError == <<>>
NilPtr == [nil |-> TRUE]

\* the MIME types documents come with
MimeTypes == {"text/plain", "image/png"}

\* SupportedTypes() of a processor; every processor of the pipeline is an
\* NLPProcessor
SupportedTypes(proc) == {"text/plain", "text/markdown", "text/html"}

\* the MIME type recorded in the metadata of a document
MimeOf(d) == CHOOSE m \in MimeTypes : m \in d.Metadata

InputDocs ==
    [ID : {"d1", "d2"}, Content : {<<"c">>},
     Metadata : {{"filename", m} : m \in MimeTypes}, Entities : {<<>>}]

\* a DocumentProcessor: Process(ctx, content, metadata) either fails with a
\* cause and no document, or returns a new document derived from the bytes
\* and the metadata it was given.  The document carries no ID, as in
\* NLPProcessor.Process; the processor leaves its mark on content,
\* metadata and entities, so that what a stage was given can be told from
\* what it returns.
ProcessorResults(proc, content, metadata) ==
    {[doc |-> [ID |-> "", Content |-> Append(content, proc),
               Metadata |-> metadata \cup {proc}, Entities |-> <<proc>>],
      err |-> NoError]}
    \cup {[doc |-> NilPtr, err |-> c] : c \in Causes}

\* fmt.Errorf("processor %d failed: %v", i, err)
StageError(i, err) == <<"processor ", Digits[i + 1], " failed: ">> \o err

NilDocError == <<"cannot process nil document">>
NoProcessorsError == <<"no processors configured in pipeline">>
\* ctx.Err() of a cancelled context
Canceled == <<"context canceled">>

VARIABLES
    processors,   \* p.processors
    impl,         \* which body of Process the running call executes:
                  \* "seq" (the sequential loop) or "chan" (pipeline.go)
    doc,          \* the caller's document, *doc
    ppc,          \* position of the goroutine that called Process
    pi,           \* the loop variable i of the sequential body
    processedDoc, \* the local processedDoc of the sequential body
    pret,         \* [returned, err]: what the last call of Process returned
    ctxDone,      \* whether the call's context is cancelled
    stages,       \* the channels stages[i]: [buf, closed]
    spc,          \* position of the goroutine of each stage
    sinput,       \* the local input of the goroutine of each stage
    added,        \* history: the processors in the order of AddProcessor
    entryDoc,     \* history: the caller's document when Process was called
    entryProcs,   \* history: the processors when Process was called
    events,       \* history: the starts and returns of processor calls
    failed,       \* history: the stage that failed in this call, its cause
    cancelledAt   \* history: how many processor starts and returns the call
                  \* had seen when its context was cancelled (when ctxDone)

pvars == <<processors, impl, doc, ppc, pi, processedDoc, pret, ctxDone, stages,
           spc, sinput, added, entryDoc, entryProcs, events, failed, cancelledAt>>

NoFailure == [stage |-> 0, cause |-> NoError]

PInit ==
    /\ processors = <<>>
    /\ impl = "seq"
    /\ doc = NilPtr
    /\ ppc = "idle"
    /\ pi = 0
    /\ processedDoc = NilPtr
    /\ pret = [returned |-> FALSE, err |-> NoError]
    /\ ctxDone = FALSE
    /\ stages = <<>>
    /\ spc = <<>>
    /\ sinput = <<>>
    /\ added = <<>>
    /\ entryDoc = NilPtr
    /\ entryProcs = <<>>
    /\ events = <<>>
    /\ failed = NoFailure
    /\ cancelledAt = 0

\* AddProcessor: called between runs, never while Process is running
AddProcessor(proc) ==
    /\ ppc = "idle"
    /\ Len(processors) < MaxProcessors
    /\ processors' = Append(processors, proc)
    /\ added' = Append(added, proc)
    /\ UNCHANGED <<impl, doc, ppc, pi, processedDoc, pret, ctxDone, stages, spc,
                   sinput, entryDoc, entryProcs, events, failed, cancelledAt>>

\* the context of a running call is cancelled
Cancel ==
    /\ ppc \notin {"idle", "panic"}
    /\ ~ctxDone
    /\ ctxDone' = TRUE
    /\ cancelledAt' = Len(events)
    /\ UNCHANGED <<processors, impl, doc, ppc, pi, processedDoc, pret, stages,
                   spc, sinput, added, entryDoc, entryProcs, events, failed>>

StartEvent(i, input) ==
    [ev |-> "start", stage |-> i, proc |-> processors[i + 1],
     content |-> input.Content, metadata |-> input.Metadata,
     doc |-> NilPtr, err |-> NoError]

ReturnEvent(i, result) ==
    [ev |-> "return", stage |-> i, proc |-> processors[i + 1],
     content |-> <<>>, metadata |-> {},
     doc |-> result.doc, err |-> result.err]

\* ------------------------------------------------------------------------
\* Process, the sequential body
\* ------------------------------------------------------------------------
\* a variant that feeds every stage the caller's document
WrongStageInput(i, d, prev) == d

\* the document whose content and metadata stage i is given
StageInput(i, d, prev) == IF i = 0 THEN d ELSE prev

\* a variant that updates the caller's document after every stage
WrongSeqAfterStage(st, result) ==
    IF result.err # NoError
    THEN [st EXCEPT !.pc = "idle",
                    !.ret = [returned |-> TRUE, err |-> StageError(st.i, result.err)]]
    ELSE [st EXCEPT !.processedDoc = result.doc,
                    !.doc = result.doc,
                    !.i = st.i + 1,
                    !.pc = IF st.i + 1 = st.n THEN "seq_commit" ELSE "seq_stage"]

\* the loop body after processor.Process has returned: st is the state of
\* the call [doc, processedDoc, i, n, pc, ret]
SeqAfterStage(st, result) ==
    IF result.err # NoError
    THEN [st EXCEPT !.pc = "idle",
                    !.ret = [returned |-> TRUE, err |-> StageError(st.i, result.err)]]
    ELSE [st EXCEPT !.processedDoc = result.doc,
                    !.i = st.i + 1,
                    !.pc = IF st.i + 1 = st.n THEN "seq_commit" ELSE "seq_stage"]

\* Process(ctx, doc) up to the loop
SeqProcessCall(d, cancelled) ==
    /\ ppc = "idle"
    /\ impl' = "seq"
    /\ doc' = d
    /\ entryDoc' = d
    /\ entryProcs' = processors
    /\ ctxDone' = cancelled
    /\ cancelledAt' = 0
    /\ events' = <<>>
    /\ failed' = NoFailure
    /\ pi' = 0
    /\ processedDoc' = NilPtr
    /\ IF d = NilPtr
       THEN /\ pret' = [returned |-> TRUE, err |-> NilDocError]
            /\ ppc' = "idle"
       ELSE IF Len(processors) = 0
       THEN /\ pret' = [returned |-> TRUE, err |-> NoProcessorsError]
            /\ ppc' = "idle"
       ELSE /\ pret' = [returned |-> FALSE, err |-> NoError]
            /\ ppc' = "seq_stage"
    /\ UNCHANGED <<processors, stages, spc, sinput, added>>

\* one iteration of the loop over p.processors
SeqStage ==
    /\ ppc = "seq_stage"
    /\ LET input == StageInput(pi, doc, processedDoc)
       IN  \E result \in ProcessorResults(processors[pi + 1], input.Content,
                                         input.Metadata) :
             LET st == [doc |-> doc, processedDoc |-> processedDoc, i |-> pi,
                        n |-> Len(processors), pc |-> ppc, ret |-> pret]
                 nx == SeqAfterStage(st, result)
             IN  /\ doc' = nx.doc
                 /\ processedDoc' = nx.processedDoc
                 /\ pi' = nx.i
                 /\ ppc' = nx.pc
                 /\ pret' = nx.ret
                 /\ events' = events \o <<StartEvent(pi, input), ReturnEvent(pi, result)>>
                 /\ failed' = IF result.err # NoError
                              THEN [stage |-> pi, cause |-> result.err]
                              ELSE failed
    /\ UNCHANGED <<processors, impl, ctxDone, stages, spc, sinput, added, entryDoc,
                   entryProcs, cancelledAt>>

\* *doc = *processedDoc; return nil
SeqCommit ==
    /\ ppc = "seq_commit"
    /\ doc' = processedDoc
    /\ pret' = [returned |-> TRUE, err |-> NoError]
    /\ ppc' = "idle"
    /\ UNCHANGED <<processors, impl, pi, processedDoc, ctxDone, stages, spc, sinput,
                   added, entryDoc, entryProcs, events, failed, cancelledAt>>

\* ------------------------------------------------------------------------
\* Process, the channel-staged body of pipeline.go: one goroutine per
\* processor, stage i handing its result to stage i+1 over stages[i]
\* (capacity 1).  Stages are numbered from 0 as in the code; TLA+ sequences
\* from 1.  A nil-pointer dereference ends the program: ppc = "panic".
\* ------------------------------------------------------------------------
OpenChan == [buf |-> <<>>, closed |-> FALSE]

\* stages[i] <- m followed by the deferred close(stages[i])
SendAndClose(ch, m) == [buf |-> Append(ch.buf, m), closed |-> TRUE]

\* the zero value a receive from a closed and drained channel yields
ZeroStage == [doc |-> NilPtr, err |-> NoError]

ChanProcessCall(d, cancelled) ==
    /\ ppc = "idle"
    /\ impl' = "chan"
    /\ doc' = d
    /\ entryDoc' = d
    /\ entryProcs' = processors
    /\ ctxDone' = cancelled
    /\ cancelledAt' = 0
    /\ events' = <<>>
    /\ failed' = NoFailure
    /\ IF d = NilPtr
       THEN \* doc.ID of a nil document
            /\ ppc' = "panic"
            /\ pret' = [returned |-> FALSE, err |-> NoError]
            /\ UNCHANGED <<stages, spc, sinput>>
       ELSE IF Len(processors) = 0
       THEN /\ pret' = [returned |-> TRUE, err |-> NoProcessorsError]
            /\ ppc' = "idle"
            /\ UNCHANGED <<stages, spc, sinput>>
       ELSE /\ pret' = [returned |-> FALSE, err |-> NoError]
            /\ ppc' = "chan_wait"
            /\ stages' = [k \in 1..Len(processors) |-> OpenChan]
            /\ spc' = [k \in 1..Len(processors) |-> "start"]
            /\ sinput' = [k \in 1..Len(processors) |-> NilPtr]
    /\ UNCHANGED <<processors, pi, processedDoc, added>>

StageFrame == <<processors, impl, doc, pi, processedDoc, pret, ctxDone, added,
               entryDoc, entryProcs, cancelledAt>>

\* stage 0: input = doc
StageTakeDoc(i) ==
    /\ ppc = "chan_wait" /\ i = 0 /\ spc[i + 1] = "start"
    /\ sinput' = [sinput EXCEPT ![i + 1] = StageInput(i, doc, NilPtr)]
    /\ spc' = [spc EXCEPT ![i + 1] = "call"]
    /\ UNCHANGED <<StageFrame, ppc, stages, events, failed>>

\* stage i > 0, select: case <-ctx.Done(): return (closing stages[i])
StageCancelled(i) ==
    /\ ppc = "chan_wait" /\ i > 0 /\ spc[i + 1] = "start"
    /\ ctxDone
    /\ stages' = [stages EXCEPT ![i + 1].closed = TRUE]
    /\ spc' = [spc EXCEPT ![i + 1] = "done"]
    /\ UNCHANGED <<StageFrame, ppc, sinput, events, failed>>

\* stage i > 0, select: case prevStage := <-stages[i-1], a value was sent
StageReceive(i) ==
    /\ ppc = "chan_wait" /\ i > 0 /\ spc[i + 1] = "start"
    /\ stages[i].buf # <<>>
    /\ LET prevStage == Head(stages[i].buf)
       IN  IF prevStage.err # NoError
           THEN /\ stages' = [stages EXCEPT
                      ![i].buf = Tail(@),
                      ![i + 1] = SendAndClose(@, [doc |-> NilPtr, err |-> prevStage.err])]
                /\ spc' = [spc EXCEPT ![i + 1] = "done"]
                /\ sinput' = sinput
           ELSE /\ stages' = [stages EXCEPT ![i].buf = Tail(@)]
                /\ sinput' = [sinput EXCEPT ![i + 1] = StageInput(i, doc, prevStage.doc)]
                /\ spc' = [spc EXCEPT ![i + 1] = "call"]
    /\ UNCHANGED <<StageFrame, ppc, events, failed>>

\* stage i > 0, select: case prevStage := <-stages[i-1], the channel is
\* closed and empty: the zero stage, whose doc is nil
StageReceiveClosed(i) ==
    /\ ppc = "chan_wait" /\ i > 0 /\ spc[i + 1] = "start"
    /\ stages[i].buf = <<>> /\ stages[i].closed
    /\ sinput' = [sinput EXCEPT ![i + 1] = StageInput(i, doc, ZeroStage.doc)]
    /\ spc' = [spc EXCEPT ![i + 1] = "call"]
    /\ UNCHANGED <<StageFrame, ppc, stages, events, failed>>

\* proc.Process(ctx, []byte(input.Content), input.Metadata) is entered
StageCall(i) ==
    /\ ppc = "chan_wait" /\ spc[i + 1] = "call"
    /\ IF sinput[i + 1] = NilPtr
       THEN /\ ppc' = "panic"
            /\ spc' = [spc EXCEPT ![i + 1] = "panic"]
            /\ events' = events
       ELSE /\ ppc' = ppc
            /\ spc' = [spc EXCEPT ![i + 1] = "running"]
            /\ events' = Append(events, StartEvent(i, sinput[i + 1]))
    /\ UNCHANGED <<StageFrame, stages, sinput, failed>>

\* proc.Process returns; stages[i] <- stage{doc: processed, err: err}
StageReturn(i) ==
    /\ ppc = "chan_wait" /\ spc[i + 1] = "running"
    /\ \E result \in ProcessorResults(processors[i + 1], sinput[i + 1].Content,
                                      sinput[i + 1].Metadata) :
          /\ stages' = [stages EXCEPT ![i + 1] = SendAndClose(@, result)]
          /\ events' = Append(events, ReturnEvent(i, result))
          /\ failed' = IF result.err # NoError
                       THEN [stage |-> i, cause |-> result.err]
                       ELSE failed
    /\ spc' = [spc EXCEPT ![i + 1] = "done"]
    /\ UNCHANGED <<StageFrame, ppc, sinput>>

\* wg.Wait() returns
ChanWait ==
    /\ ppc = "chan_wait"
    /\ \A k \in DOMAIN spc : spc[k] = "done"
    /\ ppc' = "chan_final"
    /\ UNCHANGED <<processors, impl, doc, pi, processedDoc, pret, ctxDone, stages,
                   spc, sinput, added, entryDoc, entryProcs, events, failed,
                   cancelledAt>>

ChanFrame == <<processors, impl, pi, processedDoc, ctxDone, spc, sinput, added,
               entryDoc, entryProcs, events, failed, cancelledAt>>

\* final select: case <-ctx.Done(): return ctx.Err()
ChanFinalCancelled ==
    /\ ppc = "chan_final"
    /\ ctxDone
    /\ pret' = [returned |-> TRUE, err |-> Canceled]
    /\ ppc' = "idle"
    /\ UNCHANGED <<ChanFrame, doc, stages>>

\* a variant that never stores the result in *doc
WrongFinalOutcome(d, finalStage) ==
    IF finalStage.err # NoError
    THEN [pc |-> "idle", doc |-> d,
          ret |-> [returned |-> TRUE, err |-> finalStage.err]]
    ELSE [pc |-> "idle", doc |-> d,
          ret |-> [returned |-> TRUE, err |-> NoError]]

\* the body of case finalStage := <-stages[len(stages)-1]
FinalOutcome(d, finalStage) ==
    IF finalStage.err # NoError
    THEN [pc |-> "idle", doc |-> d,
          ret |-> [returned |-> TRUE, err |-> finalStage.err]]
    ELSE IF finalStage.doc = NilPtr
    THEN [pc |-> "panic", doc |-> d, ret |-> [returned |-> FALSE, err |-> NoError]]
    ELSE [pc |-> "idle", doc |-> finalStage.doc,
          ret |-> [returned |-> TRUE, err |-> NoError]]

\* final select: case finalStage := <-stages[len(stages)-1]
ChanFinalReceive ==
    /\ ppc = "chan_final"
    /\ LET last == stages[Len(stages)]
           finalStage == IF last.buf # <<>> THEN Head(last.buf) ELSE ZeroStage
           out == FinalOutcome(doc, finalStage)
       IN  /\ last.buf # <<>> \/ last.closed
           /\ doc' = out.doc
           /\ pret' = out.ret
           /\ ppc' = out.pc
           /\ stages' = [stages EXCEPT ![Len(stages)].buf =
                            IF @ = <<>> THEN @ ELSE Tail(@)]
    /\ UNCHANGED ChanFrame

PNext ==
    \/ \E proc \in ProcessorIDs : AddProcessor(proc)
    \/ \E d \in InputDocs \cup {NilPtr} : \E c \in BOOLEAN : SeqProcessCall(d, c)
    \/ SeqStage
    \/ SeqCommit
    \/ \E d \in InputDocs \cup {NilPtr} : \E c \in BOOLEAN : ChanProcessCall(d, c)
    \/ \E i \in 0..(MaxProcessors - 1) :
          /\ i < Len(spc)
          /\ \/ StageTakeDoc(i)
             \/ StageCancelled(i)
             \/ StageReceive(i)
             \/ StageReceiveClosed(i)
             \/ StageCall(i)
             \/ StageReturn(i)
    \/ ChanWait
    \/ ChanFinalCancelled
    \/ ChanFinalReceive
    \/ Cancel

\* ------------------------------------------------------------------------
\* TextPipeline.BatchProcess: the documents are processed batch by batch,
\* one goroutine per document of the batch, each calling Process.  The
\* context handed to BatchProcess is never cancelled here (main passes
\* context.Background()) and the slice holds no nil document.
\* ------------------------------------------------------------------------
\* p.batchSize, set by NewPipeline
BatchSize == 10

MaxDocs == 15
MaxFailures == 2
MaxBatchProcessors == 1

\* the processors a pipeline that runs batches is configured with
BatchProcessorIDs == {"p1"}

\* the lengths of the slice handed to BatchProcess
DocCounts == {0, 2, MaxDocs}

DocNames ==
    <<"d1", "d2", "d3", "d4", "d5", "d6", "d7", "d8", "d9", "d10", "d11",
      "d12", "d13", "d14", "d15", "d16", "d17", "d18", "d19", "d20">>

\* the k-th document of the slice, as main builds it
BatchDoc(k) ==
    [ID |-> DocNames[k], Content |-> <<"c">>, Metadata |-> {"filename"},
     Entities |-> <<>>]

\* what a call of the sequential body returns and leaves in *doc, from the
\* state st of the call at the head of the loop
RECURSIVE SeqOutcomes(_, _)
SeqOutcomes(procs, st) ==
    IF st.pc = "seq_stage"
    THEN LET input == StageInput(st.i, st.doc, st.processedDoc)
         IN  UNION {SeqOutcomes(procs, SeqAfterStage(st, result)) :
                       result \in ProcessorResults(procs[st.i + 1], input.Content,
                                                   input.Metadata)}
    ELSE IF st.pc = "seq_commit"
    THEN {[doc |-> st.processedDoc, err |-> NoError]}
    ELSE {[doc |-> st.doc, err |-> st.ret.err]}

\* what stage i of the channel-staged body sends on stages[i]
RECURSIVE ChanStageOutputs(_, _, _)
ChanStageOutputs(procs, d, i) ==
    IF i = 0
    THEN ProcessorResults(procs[1], StageInput(0, d, NilPtr).Content,
                          StageInput(0, d, NilPtr).Metadata)
    ELSE UNION {IF prevStage.err # NoError
                THEN {[doc |-> NilPtr, err |-> prevStage.err]}
                ELSE ProcessorResults(procs[i + 1],
                                      StageInput(i, d, prevStage.doc).Content,
                                      StageInput(i, d, prevStage.doc).Metadata) :
                   prevStage \in ChanStageOutputs(procs, d, i - 1)}

\* a variant of Process that reports success when no processor is configured
WrongProcessOutcomes(im, procs, d) ==
    IF Len(procs) = 0
    THEN {[doc |-> d, err |-> NoError]}
    ELSE IF im = "seq"
    THEN SeqOutcomes(procs, [doc |-> d, processedDoc |-> NilPtr, i |-> 0,
                             n |-> Len(procs), pc |-> "seq_stage",
                             ret |-> [returned |-> FALSE, err |-> NoError]])
    ELSE {[doc |-> FinalOutcome(d, finalStage).doc,
           err |-> FinalOutcome(d, finalStage).ret.err] :
             finalStage \in ChanStageOutputs(procs, d, Len(procs) - 1)}

\* Process(ctx, d) of a non-nil document under an uncancelled context: the
\* pairs of what it leaves in *d and the error it returns
ProcessOutcomes(im, procs, d) ==
    IF Len(procs) = 0
    THEN {[doc |-> d, err |-> NoProcessorsError]}
    ELSE IF im = "seq"
    THEN SeqOutcomes(procs, [doc |-> d, processedDoc |-> NilPtr, i |-> 0,
                             n |-> Len(procs), pc |-> "seq_stage",
                             ret |-> [returned |-> FALSE, err |-> NoError]])
    ELSE {[doc |-> FinalOutcome(d, finalStage).doc,
           err |-> FinalOutcome(d, finalStage).ret.err] :
             finalStage \in ChanStageOutputs(procs, d, Len(procs) - 1)}

\* fmt.Errorf("batch processing failed: %v", err)
BatchError(err) == <<"batch processing failed: ">> \o err

\* a variant that takes every remaining document into one batch
WrongBatchEnd(i, n) == n

\* end := i + p.batchSize; if end > len(docs) { end = len(docs) }
BatchEnd(i, n) == IF i + BatchSize > n THEN n ELSE i + BatchSize

\* a variant of wg.Wait that does not wait
WrongBatchJoined(tasks, i, end) == TRUE

\* wg.Wait() returns: every goroutine of docs[i:end] has called wg.Done
BatchJoined(tasks, i, end) == \A k \in (i + 1)..end : tasks[k] = "done"

\* a variant that reports success whatever the channel holds
WrongBatchResult(errs) == NoError

\* for err := range errors { if err != nil { return ... } }: the error
\* returned for the batch, NoError when the loop falls through
BatchResult(errs) == IF errs = <<>> THEN NoError ELSE BatchError(Head(errs))

VARIABLES
    bdocs,     \* the documents docs[k] point at
    bpc,       \* position of the goroutine that called BatchProcess
    bi,        \* the loop variable i
    bend,      \* end
    bspawn,    \* how many documents of docs have been handed to a goroutine
    tpc,       \* position of the goroutine of each document: "none", "run",
               \* "blocked" (in its send) or "done"
    errors,    \* the buffer of the channel errors of the current batch
    bret,      \* [returned, err]: what the last call of BatchProcess returned
    bentry,    \* history: the documents when BatchProcess was called
    terr,      \* history: what Process returned for each document
    batches    \* history: the sizes of the batches started by this call

bvars == <<bdocs, bpc, bi, bend, bspawn, tpc, errors, bret, bentry, terr, batches>>

BInit ==
    /\ bdocs = <<>>
    /\ bpc = "idle"
    /\ bi = 0
    /\ bend = 0
    /\ bspawn = 0
    /\ tpc = <<>>
    /\ errors = <<>>
    /\ bret = [returned |-> FALSE, err |-> NoError]
    /\ bentry = <<>>
    /\ terr = <<>>
    /\ batches = <<>>

\* the pipeline state a BatchProcess call leaves alone
BatchFrame == <<doc, ppc, pi, processedDoc, pret, ctxDone, stages, spc, sinput,
               entryDoc, events, failed, cancelledAt>>

\* BatchProcess(ctx, docs) is called with n documents; im tells which body
\* of Process the build links
BatchProcessCall(n, im) ==
    /\ bpc = "idle"
    /\ impl' = im
    /\ entryProcs' = processors
    /\ bdocs' = [k \in 1..n |-> BatchDoc(k)]
    /\ bentry' = [k \in 1..n |-> BatchDoc(k)]
    /\ tpc' = [k \in 1..n |-> "none"]
    /\ terr' = [k \in 1..n |-> NoError]
    /\ bi' = 0
    /\ bend' = 0
    /\ bspawn' = 0
    /\ errors' = <<>>
    /\ batches' = <<>>
    /\ bret' = [returned |-> FALSE, err |-> NoError]
    /\ bpc' = "loop"
    /\ UNCHANGED <<processors, added, BatchFrame>>

\* the head of the loop over the batches, up to the channel and the
\* WaitGroup of the batch; past the last batch, return nil
BatchStart ==
    /\ bpc = "loop"
    /\ IF bi < Len(bdocs)
       THEN /\ bend' = BatchEnd(bi, Len(bdocs))
            /\ batches' = Append(batches, BatchEnd(bi, Len(bdocs)) - bi)
            /\ errors' = <<>>
            /\ bpc' = "spawn"
            /\ bret' = bret
       ELSE /\ bret' = [returned |-> TRUE, err |-> NoError]
            /\ bpc' = "idle"
            /\ UNCHANGED <<bend, batches, errors>>
    /\ UNCHANGED <<bdocs, bi, bspawn, tpc, bentry, terr, pvars>>

\* for _, doc := range batch: wg.Add(1); go func(d *Document) {...}(doc)
BatchSpawn ==
    /\ bpc = "spawn"
    /\ tpc' = [tpc EXCEPT ![bspawn + 1] = "run"]
    /\ bspawn' = bspawn + 1
    /\ bpc' = IF bspawn + 1 >= bend THEN "wait" ELSE "spawn"
    /\ UNCHANGED <<bdocs, bi, bend, errors, bret, bentry, terr, batches, pvars>>

\* Process failed in one of its stages
StageFailure(err) == err \notin {NoError, NoProcessorsError, NilDocError}

\* an unbuffered channel
WrongErrorsCap(i, end) == 0

\* make(chan error, len(batch)): the capacity of the channel errors of the
\* batch docs[i:end]
ErrorsCap(i, end) == end - i

\* the goroutine of docs[k-1]: err := p.Process(ctx, d); errors <- err.
\* The send of a non-nil err needs room in the buffer: nothing receives from
\* errors before wg.Wait() has returned, so a goroutine that finds the
\* buffer full stays blocked in the send
TaskProcess(k) ==
    /\ tpc[k] = "run"
    /\ \E o \in ProcessOutcomes(impl, processors, bdocs[k]) :
          /\ StageFailure(o.err) =>
                Cardinality({j \in DOMAIN terr : StageFailure(terr[j])}) < MaxFailures
          /\ bdocs' = [bdocs EXCEPT ![k] = o.doc]
          /\ terr' = [terr EXCEPT ![k] = o.err]
          /\ IF o.err # NoError /\ Len(errors) >= ErrorsCap(bi, bend)
             THEN /\ tpc' = [tpc EXCEPT ![k] = "blocked"]
                  /\ errors' = errors
             ELSE /\ tpc' = [tpc EXCEPT ![k] = "done"]
                  /\ errors' = IF o.err # NoError THEN Append(errors, o.err) ELSE errors
    /\ UNCHANGED <<bpc, bi, bend, bspawn, bret, bentry, batches, pvars>>

\* wg.Wait(); close(errors)
BatchWait ==
    /\ bpc = "wait"
    /\ BatchJoined(tpc, bi, bend)
    /\ bpc' = "check"
    /\ UNCHANGED <<bdocs, bi, bend, bspawn, tpc, errors, bret, bentry, terr,
                   batches, pvars>>

\* the loop over the closed channel, then i += p.batchSize
BatchCheck ==
    /\ bpc = "check"
    /\ IF BatchResult(errors) # NoError
       THEN /\ bret' = [returned |-> TRUE, err |-> BatchResult(errors)]
            /\ bpc' = "idle"
            /\ bi' = bi
       ELSE /\ bi' = bi + BatchSize
            /\ bpc' = "loop"
            /\ bret' = bret
    /\ UNCHANGED <<bdocs, bend, bspawn, tpc, errors, bentry, terr, batches, pvars>>

BNext ==
    \/ \E proc \in BatchProcessorIDs :
          /\ bpc = "idle"
          /\ Len(processors) < MaxBatchProcessors
          /\ AddProcessor(proc)
          /\ UNCHANGED bvars
    \/ \E n \in DocCounts : \E im \in {"seq", "chan"} : BatchProcessCall(n, im)
    \/ BatchStart
    \/ BatchSpawn
    \/ \E k \in 1..MaxDocs : k <= Len(tpc) /\ TaskProcess(k)
    \/ BatchWait
    \/ BatchCheck

\* ------------------------------------------------------------------------
\* The ingestion flow of main: one NLPProcessor is configured, the
\* documents are built with fresh IDs and handed to BatchProcess; when it
\* succeeds every document is passed to AddDocument in turn, and Generate
\* is called.  main stops (logger.Fatalf) when BatchProcess fails.
\* ------------------------------------------------------------------------
MaxIngestDocs == 3

VARIABLES
    ipos       \* how many documents the loop over AddDocument has taken

ivars == <<ipos>>

IInit == ipos = 0

\* the goroutine of main
Main == "t1"

\* the entity list of a processed document, as AddDocument reads it
EntityOf(label) == [Label |-> label, Type |-> "technology"]

\* pipeline.AddProcessor(processors.NewNLPProcessor())
IngestAddProcessor ==
    /\ processors = <<>>
    /\ bpc = "idle" /\ ~bret.returned
    /\ AddProcessor("p1")
    /\ UNCHANGED <<bvars, kgvars, ivars>>

\* err = pipeline.BatchProcess(ctx, documents)
IngestBatchProcess ==
    /\ Len(processors) = 1
    /\ ~bret.returned
    /\ \E n \in 1..MaxIngestDocs : \E im \in {"seq", "chan"} : BatchProcessCall(n, im)
    /\ UNCHANGED <<kgvars, ivars>>

\* the steps of BatchProcess and of its goroutines
IngestBatchStep ==
    /\ \/ BatchStart
       \/ BatchSpawn
       \/ \E k \in 1..MaxIngestDocs : k <= Len(tpc) /\ TaskProcess(k)
       \/ BatchWait
       \/ BatchCheck
    /\ UNCHANGED <<kgvars, ivars>>

\* for _, doc := range documents { generator.AddDocument(doc) }: the call
IngestAddDocument ==
    /\ bpc = "idle" /\ bret.returned /\ bret.err = NoError
    /\ ipos < Len(bdocs)
    /\ AddLock(Main, bdocs[ipos + 1].ID)
    /\ ipos' = ipos + 1
    /\ UNCHANGED <<pvars, bvars>>

\* the steps of AddDocument on documents[ipos - 1]
IngestAddStep ==
    /\ \/ AddCheck(Main)
       \/ /\ kpc[Main] = "add_entities"
          /\ kdoc[Main].read < Len(bdocs[ipos].Entities)
          /\ AddEntity(Main, EntityOf(bdocs[ipos].Entities[kdoc[Main].read + 1]))
       \/ /\ kpc[Main] = "add_entities"
          /\ kdoc[Main].read = Len(bdocs[ipos].Entities)
          /\ AddEntitiesDone(Main)
       \/ AddRelationsDone(Main)
       \/ AddUnlock(Main)
    /\ UNCHANGED <<pvars, bvars, ivars>>

\* knowledgeGraph = generator.Generate()
IngestGenerate ==
    /\ bpc = "idle" /\ bret.returned /\ bret.err = NoError
    /\ ipos = Len(bdocs)
    /\ \/ GenRLock(Main)
       \/ GenNodes(Main)
       \/ GenEdges(Main)
       \/ GenReturn(Main)
    /\ UNCHANGED <<pvars, bvars, ivars>>

INext ==
    \/ IngestAddProcessor
    \/ IngestBatchProcess
    \/ IngestBatchStep
    \/ IngestAddDocument
    \/ IngestAddStep
    \/ IngestGenerate

\* ------------------------------------------------------------------------
\* NLPProcessor: the extractor (extractEntitiesAndRelations) and the
\* keyword ranker (extractKeywords).  A text is the sequence of its words;
\* prose's tokens are these words, and the tag of a token is taken to
\* depend on its word only.
\* ------------------------------------------------------------------------
MaxWords == 3
MaxNouns == 11

\* the words of the texts handed to the extractor
ExtractWords == {"kubernetes", "python", "deploys", "server", "the"}

RECURSIVE SeqsUpTo(_, _)
SeqsUpTo(S, n) ==
    IF n = 0 THEN {<<>>}
    ELSE LET shorter == SeqsUpTo(S, n - 1)
         IN  shorter \cup {Append(t, w) : t \in shorter, w \in S}

\* tok.Tag
Tag(word) ==
    IF word = "deploys" THEN "VBZ" ELSE IF word = "the" THEN "DT" ELSE "NN"

\* entityPatterns, the entries whose pattern matches a word of the texts:
\* the alternatives of the pattern that occur, and the entity type
EntityPatterns ==
    {[pattern |-> "(?i)(kubernetes|docker|jenkins|git|terraform|aws|azure)",
      words |-> {"kubernetes"}, type |-> "TECHNOLOGY"],
     [pattern |-> "(?i)(numpy|pandas|tensorflow|pytorch|kubernetes|docker)",
      words |-> {"kubernetes"}, type |-> "LIBRARY"],
     [pattern |-> "(?i)(java|python|golang|javascript|typescript)",
      words |-> {"python"}, type |-> "LANGUAGE"],
     [pattern |-> "(?i)(aws|azure|gcp|cloud|kubernetes|docker)",
      words |-> {"kubernetes"}, type |-> "CLOUD"]}

\* regexp.MustCompile(pattern).FindAllStringIndex(text, -1) and the loop
\* over the matches: one entity per match, in the order of the text
RECURSIVE MatchesFrom(_, _, _)
MatchesFrom(p, text, i) ==
    IF i > Len(text) THEN <<>>
    ELSE IF text[i] \in p.words
    THEN <<[Label |-> text[i], Type |-> p.type, start_pos |-> i]>>
            \o MatchesFrom(p, text, i + 1)
    ELSE MatchesFrom(p, text, i + 1)

MatchesOf(p, text) == MatchesFrom(p, text, 1)

IsVerbTag(tag) == tag \in {"VB", "VBZ", "VBP"}

IsTechnicalVerb(verb) ==
    verb \in {"deploys", "implements", "integrates", "connects", "hosts", "serves",
              "queries", "processes", "executes", "compiles", "builds", "tests"}

IsBankingVerb(verb) ==
    verb \in {"transfers", "deposits", "withdraws", "pays", "invests", "lends",
              "borrows", "processes", "approves", "declines", "validates",
              "authorizes"}

\* getTechRelationType, on the verbs of the texts
GetTechRelationType(verb) ==
    IF verb = "deploys" THEN "DEPLOYS_TO" ELSE "RELATED_TO"

\* getBankingRelationType, on the verbs of the texts
GetBankingRelationType(verb) == "RELATED_TO"

\* techRelations, on the verbs of the texts: the type, "" when absent
TechRelations(verb) == IF verb = "deploys" THEN "DEPLOYS" ELSE ""

\* the words containing one of the patterns of findNearestEntity
NearestEntityWords == {"server", "client"}

\* findNearestEntity(tokens, pos, direction): the index of the token found,
\* 0 for nil.  Positions count from 1 here, from 0 in the code; direction
\* is 1 for the tokens after pos and 0 (-1 in the code) for those before:
\* up to 5 tokens back, up to 4 forward.
FindNearestEntity(tokens, pos, direction) ==
    LET range == IF direction > 0
                 THEN {i \in 1..Len(tokens) : i > pos /\ i <= pos + 4}
                 ELSE {i \in 1..Len(tokens) : i < pos /\ i + 5 >= pos}
        found == {i \in range : tokens[i] \in NearestEntityWords}
    IN  IF found = {} THEN 0
        ELSE IF direction > 0
        THEN CHOOSE i \in found : \A j \in found : i <= j
        ELSE CHOOSE i \in found : \A j \in found : i >= j

\* the first loop over the tokens: technical and banking verbs
RECURSIVE VerbRelations(_, _)
VerbRelations(tokens, i) ==
    IF i > Len(tokens) THEN <<>>
    ELSE LET tok == tokens[i]
             subj == FindNearestEntity(tokens, i, 0)
             obj == FindNearestEntity(tokens, i, 1)
             tech == GetTechRelationType(tok)
             relType == IF tech = "RELATED_TO" THEN GetBankingRelationType(tok)
                        ELSE tech
         IN  (IF /\ IsVerbTag(Tag(tok))
                 /\ IsTechnicalVerb(tok) \/ IsBankingVerb(tok)
                 /\ subj # 0 /\ obj # 0
              THEN <<[Type |-> relType, From |-> tokens[subj], To |-> tokens[obj],
                      Confidence |-> "0.85"]>>
              ELSE <<>>) \o VerbRelations(tokens, i + 1)

\* the second loop over the tokens: the verbs of techRelations
RECURSIVE TechVerbRelations(_, _)
TechVerbRelations(tokens, i) ==
    IF i > Len(tokens) THEN <<>>
    ELSE LET tok == tokens[i]
             subj == FindNearestEntity(tokens, i, 0)
             obj == FindNearestEntity(tokens, i, 1)
         IN  (IF /\ IsVerbTag(Tag(tok))
                 /\ TechRelations(tok) # ""
                 /\ subj # 0 /\ obj # 0
              THEN <<[Type |-> TechRelations(tok), From |-> tokens[subj],
                      To |-> tokens[obj], Confidence |-> "0.85"]>>
              ELSE <<>>) \o TechVerbRelations(tokens, i + 1)

ExtractRelations(tokens) == VerbRelations(tokens, 1) \o TechVerbRelations(tokens, 1)

\* ------------------------------------------------------------------------
\* extractKeywords.  The candidates are the nouns that are no stop words;
\* TextRank and the boosts leave a positive, finite score with every
\* candidate.  The scores are drawn from two families: all different, or
\* equal in pairs.
\* ------------------------------------------------------------------------
NounPool ==
    <<"n1", "n2", "n3", "n4", "n5", "n6", "n7", "n8", "n9", "n10", "n11", "n12",
      "n13">>

ScoreFamilies == {"distinct", "pairs"}

\* the texts handed to the ranker: k different nouns, alone or followed by
\* a stop word, a verb and the first noun again
RankTexts ==
    {SubSeq(NounPool, 1, k) : k \in 0..MaxNouns}
        \cup {SubSeq(NounPool, 1, k) \o <<"the", "deploys", "n1">> : k \in 1..MaxNouns}

IsStopWord(word) ==
    word \in {"the", "a", "an", "and", "or", "but", "in", "on", "at", "to", "for",
              "of", "with", "by"}

\* the keys of wordScores
Candidates(tokens) ==
    {tokens[i] : i \in {j \in DOMAIN tokens :
                          ~IsStopWord(tokens[j]) /\ Tag(tokens[j]) = "NN"}}

NounIndex(word) == CHOOSE i \in DOMAIN NounPool : NounPool[i] = word

\* wordScores[word] when the loops over wordScores begin
WordScore(family, word) ==
    IF family = "distinct" THEN NounIndex(word) ELSE (NounIndex(word) + 1) \div 2

\* strings.Index(doc.Text, word) >= 0
InText(text, word) == \E i \in DOMAIN text : text[i] = word

\* the loop converting wordScores to keywords; the order of the slice is
\* that of the map iteration and is lost in the sort
KeywordsOf(text, family) ==
    {[Text |-> word, Score |-> WordScore(family, word), Type |-> "keyword"] :
        word \in {w \in Candidates(text) : InText(text, w)}}

\* maxKeywords
MaxKeywords == 10

\* a variant that takes one keyword too many
WrongTopKeywords(keywords) ==
    IF Len(keywords) > MaxKeywords + 1 THEN SubSeq(keywords, 1, MaxKeywords + 1)
    ELSE keywords

\* if len(keywords) > maxKeywords { keywords = keywords[:maxKeywords] }
TopKeywords(keywords) ==
    IF Len(keywords) > MaxKeywords THEN SubSeq(keywords, 1, MaxKeywords)
    ELSE keywords

VARIABLES
    ntext,      \* the text of the running or last call
    npc,        \* position of the goroutine running the NLPProcessor
    npending,   \* the entries of entityPatterns the range loop has not visited
    nentities,  \* entities
    nout,       \* history: what the runs of the extractor on ntext returned
    rfamily,    \* the score family of the running call of the ranker
    rkeywords,  \* keywords before the sort, as the set of its elements
    rsorted,    \* keywords as sort.Slice leaves it, as far as it is decided
    rret        \* [returned, keywords]: what the ranker returned for ntext

nvars == <<ntext, npc, npending, nentities, nout, rfamily, rkeywords, rsorted, rret>>

NInit ==
    /\ ntext = <<>>
    /\ npc = "idle"
    /\ npending = {}
    /\ nentities = <<>>
    /\ nout = <<>>
    /\ rfamily = "distinct"
    /\ rkeywords = {}
    /\ rsorted = <<>>
    /\ rret = [returned |-> FALSE, keywords |-> <<>>]

\* extractEntitiesAndRelations(doc) is called on a text
ExtractCall(text) ==
    /\ npc = "idle"
    /\ ntext' = text
    /\ nout' = <<>>
    /\ npending' = EntityPatterns
    /\ nentities' = <<>>
    /\ npc' = "patterns"
    /\ rfamily' = "distinct"
    /\ rkeywords' = {}
    /\ rsorted' = <<>>
    /\ rret' = [returned |-> FALSE, keywords |-> <<>>]

\* extractEntitiesAndRelations(doc) is called again on the same text
ExtractAgain ==
    /\ npc = "idle"
    /\ Len(nout) = 1
    /\ npending' = EntityPatterns
    /\ nentities' = <<>>
    /\ npc' = "patterns"
    /\ UNCHANGED <<ntext, nout, rfamily, rkeywords, rsorted, rret>>

\* for pattern, entityType := range entityPatterns: one iteration; the
\* order of a range over a map is unspecified
ExtractPattern(p) ==
    /\ npc = "patterns"
    /\ p \in npending
    /\ nentities' = nentities \o MatchesOf(p, ntext)
    /\ npending' = npending \ {p}
    /\ UNCHANGED <<ntext, npc, nout, rfamily, rkeywords, rsorted, rret>>

\* the two loops over the tokens, and the return
ExtractReturn ==
    /\ npc = "patterns"
    /\ npending = {}
    /\ nout' = Append(nout, [entities |-> nentities,
                             relations |-> ExtractRelations(ntext)])
    /\ nentities' = <<>>
    /\ npc' = "idle"
    /\ UNCHANGED <<ntext, npending, rfamily, rkeywords, rsorted, rret>>

\* extractKeywords(doc) up to the sort
RankCall(text, family) ==
    /\ npc = "idle"
    /\ ntext' = text
    /\ nout' = <<>>
    /\ rfamily' = family
    /\ rkeywords' = KeywordsOf(text, family)
    /\ rsorted' = <<>>
    /\ rret' = [returned |-> FALSE, keywords |-> <<>>]
    /\ npc' = "sort"
    /\ npending' = {}
    /\ nentities' = <<>>

\* sort.Slice(keywords, Score descending), which is not stable: the next
\* place goes to any of the keywords of the highest score not yet placed
RankSort(kw) ==
    /\ npc = "sort"
    /\ kw \in rkeywords
    /\ \A i \in DOMAIN rsorted : rsorted[i] # kw
    /\ \A other \in rkeywords :
          (\A i \in DOMAIN rsorted : rsorted[i] # other) => other.Score <= kw.Score
    /\ rsorted' = Append(rsorted, kw)
    /\ UNCHANGED <<ntext, npc, npending, nentities, nout, rfamily, rkeywords, rret>>

\* the cut to maxKeywords and the return
RankReturn ==
    /\ npc = "sort"
    /\ Len(rsorted) = Cardinality(rkeywords)
    /\ rret' = [returned |-> TRUE, keywords |-> TopKeywords(rsorted)]
    /\ rsorted' = <<>>
    /\ rkeywords' = {}
    /\ npc' = "idle"
    /\ UNCHANGED <<ntext, npending, nentities, nout, rfamily>>

NNext ==
    \/ \E text \in SeqsUpTo(ExtractWords, MaxWords) : ExtractCall(text)
    \/ ExtractAgain
    \/ \E p \in EntityPatterns : ExtractPattern(p)
    \/ ExtractReturn
    \/ \E text \in RankTexts : \E family \in ScoreFamilies : RankCall(text, family)
    \/ \E kw \in rkeywords : RankSort(kw)
    \/ RankReturn

\* texts for the search window of findNearestEntity: one verb, up to
\* MaxWindowNouns nouns of the patterns list, articles elsewhere
MaxWindowWords == 7
MaxWindowNouns == 3

WindowTexts ==
    UNION {{t \in [1..n -> {"deploys", "server", "client", "the"}] :
               /\ Cardinality({i \in 1..n : t[i] = "deploys"}) = 1
               /\ Cardinality({i \in 1..n : t[i] \in NearestEntityWords}) <= MaxWindowNouns}
           : n \in 1..MaxWindowWords}

\* extractEntitiesAndRelations is about to be called on one of the texts
WindowInputs ==
    /\ ntext \in WindowTexts
    /\ npc = "idle"
    /\ npending = {}
    /\ nentities = <<>>
    /\ nout = <<>>
    /\ rfamily = "distinct"
    /\ rkeywords = {}
    /\ rsorted = <<>>
    /\ rret = [returned |-> FALSE, keywords |-> <<>>]

\* one call of extractEntitiesAndRelations on the text drawn
WindowNext ==
    \/ nout = <<>> /\ ExtractCall(ntext)
    \/ \E p \in EntityPatterns : ExtractPattern(p)
    \/ ExtractReturn

\* ------------------------------------------------------------------------
\* NLPProcessor.resolveCoreferenceChains.  Labels and sentence texts are
\* sequences of one-character strings, so that strings.Contains,
\* strings.Index and strings.HasSuffix are the substring operations of the
\* code.  The call is one step per pronoun index, in any order
\* (pronounIndices.ToSlice() of a set), then the return.
\* ------------------------------------------------------------------------
MaxSentences == 5
MaxMentions == 2
\* at most this many sentences of a text say more than "ok"
MaxTelling == 2

\* strings.Contains(s, substr)
StringsContains(s, substr) ==
    \E i \in 1..Len(s) :
        /\ i + Len(substr) <= Len(s) + 1
        /\ SubSeq(s, i, i + Len(substr) - 1) = substr

\* strings.Index(s, substr), for a substr that s contains
StringsIndex(s, substr) ==
    CHOOSE k \in 0..Len(s) :
        /\ SubSeq(s, k + 1, k + Len(substr)) = substr
        /\ \A j \in 0..Len(s) : j < k => SubSeq(s, j + 1, j + Len(substr)) # substr

\* strings.HasSuffix(s, suffix)
StringsHasSuffix(s, suffix) ==
    /\ Len(suffix) <= Len(s)
    /\ SubSeq(s, Len(s) - Len(suffix) + 1, Len(s)) = suffix

\* strings.ToLower, one character
LowerChar(c) ==
    CASE c = "A" -> "a" [] c = "G" -> "g" [] c = "I" -> "i" [] c = "M" -> "m"
      [] c = "S" -> "s" [] c = "T" -> "t" [] c = "W" -> "w" [] OTHER -> c

\* strings.ToLower
StringsToLower(s) == [i \in DOMAIN s |-> LowerChar(s[i])]

IT == <<"i", "t">>
THEY == <<"t", "h", "e", "y">>
AWS == <<"a", "w", "s">>
GIT == <<"g", "i", "t">>
OK == <<"o", "k">>

\* the pronouns map of isPronoun
Pronouns ==
    {<<"h", "e">>, <<"s", "h", "e">>, IT, THEY,
     <<"h", "i", "m">>, <<"h", "e", "r">>, <<"t", "h", "e", "m">>,
     <<"h", "i", "s">>, <<"h", "e", "r", "s">>, <<"i", "t", "s">>,
     <<"t", "h", "e", "i", "r">>,
     <<"t", "h", "i", "s">>, <<"t", "h", "a", "t">>,
     <<"t", "h", "e", "s", "e">>, <<"t", "h", "o", "s", "e">>}

isPronoun(word) == StringsToLower(word) \in Pronouns

isMalePerson(entity) ==
    \E indicator \in {<<"M", "r", ".">>, <<"M", "r">>, <<"h", "e">>,
                      <<"h", "i", "m">>, <<"h", "i", "s">>,
                      <<"f", "a", "t", "h", "e", "r">>,
                      <<"b", "r", "o", "t", "h", "e", "r">>,
                      <<"s", "o", "n">>} :
        StringsContains(entity, indicator)

isFemalePerson(entity) ==
    \E indicator \in {<<"M", "r", "s", ".">>, <<"M", "r", "s">>,
                      <<"M", "s", ".">>, <<"M", "s">>, <<"s", "h", "e">>,
                      <<"h", "e", "r">>, <<"m", "o", "t", "h", "e", "r">>,
                      <<"s", "i", "s", "t", "e", "r">>,
                      <<"d", "a", "u", "g", "h", "t", "e", "r">>} :
        StringsContains(entity, indicator)

isPlural(entity) ==
    \/ StringsHasSuffix(entity, <<"s">>)
    \/ StringsHasSuffix(entity, <<"r", "e", "n">>)
    \/ StringsHasSuffix(entity, <<"p", "l", "e">>)
    \/ StringsContains(entity, <<" ", "a", "n", "d", " ">>)

canBeCoreferent(pronoun, entity) ==
    LET lower == StringsToLower(pronoun) IN
    IF lower \in {<<"h", "e">>, <<"h", "i", "m">>, <<"h", "i", "s">>}
    THEN isMalePerson(entity)
    ELSE IF lower \in {<<"s", "h", "e">>, <<"h", "e", "r">>, <<"h", "e", "r", "s">>}
    THEN isFemalePerson(entity)
    ELSE IF lower \in {THEY, <<"t", "h", "e", "m">>, <<"t", "h", "e", "i", "r">>,
                       <<"t", "h", "e", "i", "r", "s">>}
    THEN isPlural(entity)
    ELSE TRUE

\* the labels of the entities handed to the resolver
MentionLabels == {IT, THEY, AWS, GIT}

Mention(label) == [Label |-> label, Type |-> "TECHNOLOGY"]

\* the texts of single sentences: one word, or a name followed by a pronoun
SentenceTexts ==
    {OK, IT, THEY, AWS, GIT, AWS \o <<" ">> \o IT, GIT \o <<" ">> \o THEY}

\* doc.Sentences() of the documents: up to MaxSentences sentences, at most
\* MaxTelling of them other than "ok"
SentenceLists ==
    UNION {{s \in [1..n -> SentenceTexts] :
               Cardinality({i \in 1..n : s[i] # OK}) <= MaxTelling}
           : n \in 1..MaxSentences}

\* the entity lists of a document: every label is a piece of its text
MentionLists(sentences) ==
    UNION {{es \in [1..n -> {Mention(l) : l \in MentionLabels}] :
               \A k \in 1..n : \E i \in DOMAIN sentences :
                   StringsContains(sentences[i], es[k].Label)}
           : n \in 0..MaxMentions}

NoSentence == 0

\* lines 342-350: the first sentence whose text contains the label
\* (NoSentence stands for the code's -1)
ContainingSentence(sentences, label) ==
    IF \E i \in DOMAIN sentences : StringsContains(sentences[i], label)
    THEN CHOOSE i \in DOMAIN sentences :
             /\ StringsContains(sentences[i], label)
             /\ \A j \in 1..(i - 1) : ~StringsContains(sentences[j], label)
    ELSE NoSentence

NoMatch == [nil |-> TRUE]
FarAway == 1000000

\* lines 361-373: one pass of the inner loop over the entities, for the
\* sentence `gap` sentences before the pronoun's; best = [match, distance]
RECURSIVE ScanEntities(_, _, _, _, _, _)
ScanEntities(entities, pronoun, pronounPos, gap, k, best) ==
    IF k > Len(entities) THEN best
    ELSE LET ent == entities[k]
             distance == pronounPos + gap * 100
             next == IF /\ ~isPronoun(ent.Label)
                        /\ canBeCoreferent(pronoun.Label, ent.Label)
                        /\ distance < best.distance
                     THEN [match |-> ent, distance |-> distance]
                     ELSE best
         IN ScanEntities(entities, pronoun, pronounPos, gap, k + 1, next)

\* line 360: for i := containingSentence; i >= 0 && i >= containingSentence-3
RECURSIVE ScanSentences(_, _, _, _, _, _)
ScanSentences(entities, pronoun, pronounPos, containing, gap, best) ==
    IF gap > 3 \/ gap >= containing THEN best
    ELSE ScanSentences(entities, pronoun, pronounPos, containing, gap + 1,
                       ScanEntities(entities, pronoun, pronounPos, gap, 1, best))

\* lines 338-378 for one pronoun index: the entity its slot holds afterwards
ResolvePronoun(entities, sentences, idx) ==
    LET pronoun == entities[idx]
        containing == ContainingSentence(sentences, pronoun.Label)
    IN IF containing = NoSentence THEN pronoun
       ELSE LET pronounPos == StringsIndex(sentences[containing], pronoun.Label)
                best == ScanSentences(entities, pronoun, pronounPos, containing, 0,
                                      [match |-> NoMatch, distance |-> FarAway])
            IN IF best.match # NoMatch THEN best.match ELSE pronoun

VARIABLES
    centities,   \* the entities argument
    csentences,  \* doc.Sentences()
    cpc,         \* "idle" | "resolve" | "done"
    cpending,    \* pronounIndices not yet visited by the second pass
    resolved,    \* the resolved slice
    cret         \* [returned, entities]: what the last call returned

cvars == <<centities, csentences, cpc, cpending, resolved, cret>>

CInit ==
    /\ centities = <<>>
    /\ csentences = <<>>
    /\ cpc = "idle"
    /\ cpending = {}
    /\ resolved = <<>>
    /\ cret = [returned |-> FALSE, entities |-> <<>>]

\* lines 319-336: the first pass and the copy
ResolveCall ==
    /\ cpc = "idle"
    /\ cpending' = {i \in DOMAIN centities : isPronoun(centities[i].Label)}
    /\ resolved' = centities
    /\ cpc' = "resolve"
    /\ UNCHANGED <<centities, csentences, cret>>

\* lines 338-379: one iteration of the second pass
ResolveStep(idx) ==
    /\ cpc = "resolve"
    /\ idx \in cpending
    /\ resolved' = [resolved EXCEPT ![idx] = ResolvePronoun(centities, csentences, idx)]
    /\ cpending' = cpending \ {idx}
    /\ UNCHANGED <<centities, csentences, cpc, cret>>

\* line 381
ResolveReturn ==
    /\ cpc = "resolve"
    /\ cpending = {}
    /\ cret' = [returned |-> TRUE, entities |-> resolved]
    /\ cpc' = "done"
    /\ UNCHANGED <<centities, csentences, cpending, resolved>>

\* the resolver about to be called on the entities of a document
ResolverInputs ==
    /\ csentences \in SentenceLists
    /\ centities \in MentionLists(csentences)
    /\ cpc = "idle"
    /\ cpending = {}
    /\ resolved = <<>>
    /\ cret = [returned |-> FALSE, entities |-> <<>>]

CNext ==
    \/ ResolveCall
    \/ \E idx \in 1..MaxMentions : ResolveStep(idx)
    \/ ResolveReturn

\* ------------------------------------------------------------------------
\* MemoryKnowledgeGraph.  data.Nodes is a slice header over a heap of
\* backing arrays of Nodes, and nodeMap holds pointers into those arrays
\* (&g.data.Nodes[len-1]): a pointer is [arr, idx] and keeps naming its slot
\* whatever the slot holds later.  edgeMap's values are read nowhere in the
\* code (only the presence of a key is), so edgeMap is its set of keys and
\* data.Edges a sequence.  Every method holds the mutex from entry to
\* return, so each is one step.
\* ------------------------------------------------------------------------
MaxNodeAdds == 3
MaxEdges == 2

ZeroNode == [ID |-> <<>>, Label |-> "", Type |-> ""]

NodeIDs == {UuidString(n) : n \in 1..MaxNodeAdds}

\* the relationships passed to AddRelationship
MemRelations == [From : NodeIDs, To : NodeIDs, Type : {DEPENDS_ON}]

\* the IDs passed to DeleteRelationship
EdgeIDs == {EdgeID(r.From, r.Type, r.To) : r \in MemRelations}

NewMemoryKnowledgeGraph ==
    [arrays |-> <<>>, Nodes |-> [arr |-> 0, len |-> 0, cap |-> 0],
     Edges |-> <<>>, nodeMap |-> EmptyMap, edgeMap |-> {}]

\* append(g.data.Nodes, node): in place when capacity is left, else a
\* doubled copy in a new backing array
AppendNode(arrays, s, x) ==
    IF s.len < s.cap
    THEN [arrays |-> [arrays EXCEPT ![s.arr][s.len + 1] = x],
          slice  |-> [s EXCEPT !.len = s.len + 1]]
    ELSE LET newcap == IF s.cap = 0 THEN 1 ELSE 2 * s.cap
             newarr == [i \in 1..newcap |->
                          IF i <= s.len THEN arrays[s.arr][i]
                          ELSE IF i = s.len + 1 THEN x ELSE ZeroNode]
         IN  [arrays |-> Append(arrays, newarr),
              slice  |-> [arr |-> Len(arrays) + 1, len |-> s.len + 1, cap |-> newcap]]

\* append(s[:i], s[i+1:]...) on the nodes, i counted from 1: the tail moves
\* one slot down inside the same backing array
RemoveNodeAt(arrays, s, i) ==
    [arrays |-> [arrays EXCEPT ![s.arr] =
                    [k \in 1..s.cap |->
                        IF k >= i /\ k < s.len THEN arrays[s.arr][k + 1]
                        ELSE arrays[s.arr][k]]],
     slice  |-> [s EXCEPT !.len = s.len - 1]]

\* append(s[:i], s[i+1:]...) on the edges, i counted from 1
RemoveEdgeAt(edges, i) == SubSeq(edges, 1, i - 1) \o SubSeq(edges, i + 1, Len(edges))

\* the nodes of data.Nodes
MemNodes(w) == [i \in 1..w.Nodes.len |-> w.arrays[w.Nodes.arr][i]]

\* *ptr for a pointer of nodeMap
Deref(w, ptr) == w.arrays[ptr.arr][ptr.idx]

\* lines 66-83
AddEntityTo(w, nodeID, entity) ==
    LET node == [ID |-> nodeID, Label |-> entity.Label, Type |-> entity.Type]
        app == AppendNode(w.arrays, w.Nodes, node)
    IN [w EXCEPT !.arrays = app.arrays,
                 !.Nodes = app.slice,
                 !.nodeMap = [id \in DOMAIN w.nodeMap \cup {nodeID} |->
                                IF id = nodeID
                                THEN [arr |-> app.slice.arr, idx |-> app.slice.len]
                                ELSE w.nodeMap[id]]]

NotFoundError == <<"source or target node not found">>
EntityNotFound(id) == <<"entity not found: ">> \o id
RelationshipNotFound(id) == <<"relationship not found: ">> \o id

\* lines 86-112: [graph, err]
AddRelationshipTo(w, rel) ==
    IF rel.From \notin DOMAIN w.nodeMap \/ rel.To \notin DOMAIN w.nodeMap
    THEN [graph |-> w, err |-> NotFoundError]
    ELSE LET edgeID == EdgeID(rel.From, rel.Type, rel.To)
             edge == [ID |-> edgeID, Source |-> rel.From, Target |-> rel.To,
                      Type |-> rel.Type]
         IN [graph |-> [w EXCEPT !.Edges = Append(w.Edges, edge),
                                 !.edgeMap = w.edgeMap \cup {edgeID}],
             err |-> NoError]

\* the Entity built from a Node (lines 125-130, 147-152, 159-164)
NodeEntity(node) == [ID |-> node.ID, Label |-> node.Label, Type |-> node.Type]

\* lines 115-133: [entity, err]
GetEntityOf(w, id) ==
    IF id \notin DOMAIN w.nodeMap
    THEN [entity |-> NilPtr, err |-> EntityNotFound(id)]
    ELSE [entity |-> NodeEntity(Deref(w, w.nodeMap[id])), err |-> NoError]

\* lines 142-167 for one edge: the entities it adds to related
RelatedOfEdge(w, edge, entityID, relationType) ==
    LET typeMatches == relationType = <<>> \/ edge.Type = relationType
        target == IF edge.Source = entityID /\ typeMatches
                     /\ edge.Target \in DOMAIN w.nodeMap
                  THEN <<NodeEntity(Deref(w, w.nodeMap[edge.Target]))>> ELSE <<>>
        source == IF edge.Target = entityID /\ typeMatches
                     /\ edge.Source \in DOMAIN w.nodeMap
                  THEN <<NodeEntity(Deref(w, w.nodeMap[edge.Source]))>> ELSE <<>>
    IN target \o source

\* lines 136-169
RECURSIVE GetRelatedEntitiesOf(_, _, _, _)
GetRelatedEntitiesOf(w, entityID, relationType, i) ==
    IF i > Len(w.Edges) THEN <<>>
    ELSE RelatedOfEdge(w, w.Edges[i], entityID, relationType)
         \o GetRelatedEntitiesOf(w, entityID, relationType, i + 1)

\* a cascade that stops at the first incident edge
WrongRemoveRelatedEdges(w, id, i) ==
    IF \E k \in DOMAIN w.Edges : w.Edges[k].Source = id \/ w.Edges[k].Target = id
    THEN LET k == CHOOSE k \in DOMAIN w.Edges :
                      w.Edges[k].Source = id \/ w.Edges[k].Target = id
         IN [w EXCEPT !.edgeMap = w.edgeMap \ {w.Edges[k].ID},
                      !.Edges = RemoveEdgeAt(w.Edges, k)]
    ELSE w

\* lines 187-193: the loop for i := len-1 down to 0 (here i from Len to 1)
RECURSIVE RemoveRelatedEdges(_, _, _)
RemoveRelatedEdges(w, id, i) ==
    IF i = 0 THEN w
    ELSE IF w.Edges[i].Source = id \/ w.Edges[i].Target = id
    THEN RemoveRelatedEdges([w EXCEPT !.edgeMap = w.edgeMap \ {w.Edges[i].ID},
                                      !.Edges = RemoveEdgeAt(w.Edges, i)],
                            id, i - 1)
    ELSE RemoveRelatedEdges(w, id, i - 1)

\* lines 196-202: the first node with this ID leaves data.Nodes, the key
\* leaves nodeMap
RemoveNode(w, id) ==
    LET nodes == MemNodes(w)
        rem == IF \E i \in DOMAIN nodes : nodes[i].ID = id
               THEN RemoveNodeAt(w.arrays, w.Nodes,
                        CHOOSE i \in DOMAIN nodes :
                            /\ nodes[i].ID = id
                            /\ \A j \in 1..(i - 1) : nodes[j].ID # id)
               ELSE [arrays |-> w.arrays, slice |-> w.Nodes]
    IN [w EXCEPT !.arrays = rem.arrays,
                 !.Nodes = rem.slice,
                 !.nodeMap = [k \in DOMAIN w.nodeMap \ {id} |-> w.nodeMap[k]]]

\* lines 179-205: [graph, err]
DeleteEntityFrom(w, id) ==
    IF id \notin DOMAIN w.nodeMap
    THEN [graph |-> w, err |-> EntityNotFound(id)]
    ELSE [graph |-> RemoveNode(RemoveRelatedEdges(w, id, Len(w.Edges)), id),
          err |-> NoError]

\* lines 208-226: [graph, err]
DeleteRelationshipFrom(w, id) ==
    IF id \notin w.edgeMap
    THEN [graph |-> w, err |-> RelationshipNotFound(id)]
    ELSE LET edges == IF \E i \in DOMAIN w.Edges : w.Edges[i].ID = id
                      THEN RemoveEdgeAt(w.Edges,
                               CHOOSE i \in DOMAIN w.Edges :
                                   /\ w.Edges[i].ID = id
                                   /\ \A j \in 1..(i - 1) : w.Edges[j].ID # id)
                      ELSE w.Edges
         IN [graph |-> [w EXCEPT !.Edges = edges, !.edgeMap = w.edgeMap \ {id}],
             err |-> NoError]

VARIABLES
    mg,       \* the MemoryKnowledgeGraph
    muuid,    \* how many identifiers uuid.New() has minted for it
    madded,   \* history: node ID -> the entity AddEntity was called with
    mlast     \* history: the last call, the graph it found, what it returned

mvars == <<mg, muuid, madded, mlast>>

NoCall == [op |-> "none", arg |-> <<>>, before |-> NewMemoryKnowledgeGraph,
           err |-> NoError, result |-> <<>>]

MInit ==
    /\ mg = NewMemoryKnowledgeGraph
    /\ muuid = 0
    /\ madded = EmptyMap
    /\ mlast = NoCall

MemAddEntity(entity) ==
    /\ muuid < MaxNodeAdds
    /\ LET nodeID == UuidString(muuid + 1) IN
         /\ mg' = AddEntityTo(mg, nodeID, entity)
         /\ madded' = [id \in DOMAIN madded \cup {nodeID} |->
                          IF id = nodeID THEN entity ELSE madded[id]]
         /\ mlast' = [NoCall EXCEPT !.op = "AddEntity", !.arg = nodeID]
    /\ muuid' = muuid + 1

MemAddRelationship(rel) ==
    /\ Len(mg.Edges) < MaxEdges
    /\ LET r == AddRelationshipTo(mg, rel) IN
         /\ mg' = r.graph
         /\ mlast' = [NoCall EXCEPT !.op = "AddRelationship",
                                    !.arg = EdgeID(rel.From, rel.Type, rel.To),
                                    !.err = r.err]
    /\ UNCHANGED <<muuid, madded>>

MemGetEntity(id) ==
    /\ LET r == GetEntityOf(mg, id) IN
         mlast' = [NoCall EXCEPT !.op = "GetEntity", !.arg = id,
                                 !.err = r.err, !.result = <<r.entity>>]
    /\ UNCHANGED <<mg, muuid, madded>>

MemGetRelatedEntities(entityID, relationType) ==
    /\ mlast' = [NoCall EXCEPT !.op = "GetRelatedEntities", !.arg = entityID,
                    !.result = GetRelatedEntitiesOf(mg, entityID, relationType, 1)]
    /\ UNCHANGED <<mg, muuid, madded>>

MemDeleteEntity(id) ==
    /\ LET r == DeleteEntityFrom(mg, id) IN
         /\ mg' = r.graph
         /\ mlast' = [NoCall EXCEPT !.op = "DeleteEntity", !.arg = id,
                                    !.before = mg, !.err = r.err]
    /\ UNCHANGED <<muuid, madded>>

MemDeleteRelationship(id) ==
    /\ LET r == DeleteRelationshipFrom(mg, id) IN
         /\ mg' = r.graph
         /\ mlast' = [NoCall EXCEPT !.op = "DeleteRelationship", !.arg = id,
                                    !.err = r.err]
    /\ UNCHANGED <<muuid, madded>>

MNext ==
    \/ \E entity \in EntitySet : MemAddEntity(entity)
    \/ \E rel \in MemRelations : MemAddRelationship(rel)
    \/ \E id \in NodeIDs : MemGetEntity(id)
    \/ \E id \in NodeIDs : \E relationType \in {<<>>, DEPENDS_ON} :
           MemGetRelatedEntities(id, relationType)
    \/ \E id \in NodeIDs : MemDeleteEntity(id)
    \/ \E id \in EdgeIDs : MemDeleteRelationship(id)

\* ------------------------------------------------------------------------
\* NLPProcessor.extractKeywords, the boosts of lines 473-533.  Scores are
\* counted in quarters (4 stands for 1.0), so that 1.5 and 2.25 times a
\* score are whole numbers.  The loop ranges over the map wordScores: one
\* step per word, in any order.
\* ------------------------------------------------------------------------
\* the words of wordScores
BoostWords == {"server", "loan", "compliance", "team"}

\* the scores TextRank converged to: 1.0 and 2.0
ConvergedScores == {4, 8}

\* technicalTermBoost := 1.5 and bankingTermBoost := 1.5
TechnicalTermBoost == [num |-> 3, den |-> 2]
BankingTermBoost == [num |-> 3, den |-> 2]

\* score * boost
Times(score, boost) == (score * boost.num) \div boost.den

\* the terms of technicalPatterns and of bankingPatterns that a word of
\* BoostWords contains
TechnicalPatterns == {"server", "compliance"}
BankingPatterns == {"loan", "compliance"}

\* strings.Contains(strings.ToLower(word), term), on the words of BoostWords
WordContains(word, term) == word = term

\* lines 518-533 for one word: wordScores[word] after the two inner loops,
\* score being the value the range statement read
Boosted(word, score) ==
    LET afterTechnical ==
            IF \E term \in TechnicalPatterns : WordContains(word, term)
            THEN Times(score, TechnicalTermBoost) ELSE score
    IN  IF \E term \in BankingPatterns : WordContains(word, term)
        THEN Times(score, BankingTermBoost) ELSE afterTechnical

VARIABLES
    wordScores,   \* the map wordScores
    converged,    \* history: wordScores when the boost loop starts
    unvisited,    \* the keys the range has not visited yet
    wpc           \* "ranked" | "boost" | "boosted"

wvars == <<wordScores, converged, unvisited, wpc>>

WInit ==
    /\ wordScores = EmptyMap
    /\ converged = EmptyMap
    /\ unvisited = {}
    /\ wpc = "ranked"

\* the map after the TextRank iterations: some of the words, each with a
\* converged score
BoostInputs ==
    /\ \E words \in SUBSET BoostWords : wordScores \in [words -> ConvergedScores]
    /\ converged = wordScores
    /\ unvisited = {}
    /\ wpc = "ranked"

\* for word, score := range wordScores: the loop is entered
BoostStart ==
    /\ wpc = "ranked"
    /\ unvisited' = DOMAIN wordScores
    /\ wpc' = "boost"
    /\ UNCHANGED <<wordScores, converged>>

\* one iteration of the range over wordScores
BoostWord(word) ==
    /\ wpc = "boost"
    /\ word \in unvisited
    /\ wordScores' = [wordScores EXCEPT ![word] = Boosted(word, wordScores[word])]
    /\ unvisited' = unvisited \ {word}
    /\ UNCHANGED <<converged, wpc>>

\* the range is over
BoostDone ==
    /\ wpc = "boost"
    /\ unvisited = {}
    /\ wpc' = "boosted"
    /\ UNCHANGED <<wordScores, converged, unvisited>>

BoostNext ==
    \/ BoostStart
    \/ \E word \in BoostWords : BoostWord(word)
    \/ BoostDone

\* ------------------------------------------------------------------------
\* Specifications
\* ------------------------------------------------------------------------
vars == <<kgvars, pvars, bvars, ivars, nvars, cvars, mvars, wvars>>

Init == KGInit /\ PInit /\ BInit /\ IInit /\ NInit /\ CInit /\ MInit /\ WInit

\* the accumulator under concurrent AddDocument and Generate
SpecKG == Init /\ [][KGNext /\ UNCHANGED <<pvars, bvars, ivars, nvars, cvars, mvars, wvars>>]_vars

\* the accumulator with longer entity lists, for snapshots
SpecSnap == Init /\ [][SnapNext /\ UNCHANGED <<pvars, bvars, ivars, nvars, cvars, mvars, wvars>>]_vars

\* TextPipeline.Process, both bodies
SpecProc == Init /\ [][PNext /\ UNCHANGED <<kgvars, bvars, ivars, nvars, cvars, mvars, wvars>>]_vars

\* TextPipeline.BatchProcess
SpecBatch == Init /\ [][BNext /\ UNCHANGED <<kgvars, ivars, nvars, cvars, mvars, wvars>>]_vars

\* the ingestion flow of main
SpecIngest == Init /\ [][INext /\ UNCHANGED <<nvars, cvars, mvars, wvars>>]_vars

\* the extractor and the keyword ranker of the NLPProcessor
SpecNLP == Init /\ [][NNext /\ UNCHANGED <<kgvars, pvars, bvars, ivars, cvars, mvars, wvars>>]_vars

\* the coreference resolver of the NLPProcessor, called once on the entities
\* of a document
CorefInit == KGInit /\ PInit /\ BInit /\ IInit /\ NInit /\ ResolverInputs /\ MInit /\ WInit

SpecCoref == CorefInit /\ [][CNext /\ UNCHANGED <<kgvars, pvars, bvars, ivars, nvars, mvars, wvars>>]_vars

\* MemoryKnowledgeGraph under any sequence of its calls
SpecMem == Init /\ [][MNext /\ UNCHANGED <<kgvars, pvars, bvars, ivars, nvars, cvars, wvars>>]_vars

\* at most this many documents of a call fail in a stage, in the
\* specification with fairness
MaxLiveFailures == 1

\* the steps of a call of BatchProcess and of its goroutines
BatchSteps ==
    \/ BatchStart
    \/ BatchSpawn
    \/ \E k \in 1..MaxDocs :
          /\ k <= Len(tpc)
          /\ TaskProcess(k)
          /\ Cardinality({j \in DOMAIN terr' : StageFailure(terr'[j])}) <= MaxLiveFailures
    \/ BatchWait
    \/ BatchCheck

\* calls of BatchProcess of the sequential variant, and their steps
BatchLiveNext ==
    \/ \E proc \in BatchProcessorIDs :
          /\ bpc = "idle"
          /\ Len(processors) < MaxBatchProcessors
          /\ AddProcessor(proc)
          /\ UNCHANGED bvars
    \/ \E n \in DocCounts : BatchProcessCall(n, "seq")
    \/ BatchSteps

\* TextPipeline.BatchProcess with a scheduler that runs some goroutine of
\* the call whenever one of them can take a step
SpecBatchLive ==
    /\ Init
    /\ [][BatchLiveNext /\ UNCHANGED <<kgvars, ivars, nvars, cvars, mvars, wvars>>]_vars
    /\ WF_vars(BatchSteps /\ UNCHANGED <<kgvars, ivars, nvars, cvars, mvars, wvars>>)

\* the extractor called once on a text with one verb
WindowInit == KGInit /\ PInit /\ BInit /\ IInit /\ WindowInputs /\ CInit /\ MInit /\ WInit

SpecWindow ==
    WindowInit /\ [][WindowNext /\ UNCHANGED <<kgvars, pvars, bvars, ivars, cvars, mvars, wvars>>]_vars

\* the boost loop of extractKeywords on a map of converged scores
BoostInit ==
    KGInit /\ PInit /\ BInit /\ IInit /\ NInit /\ CInit /\ MInit /\ BoostInputs

SpecBoost ==
    BoostInit /\ [][BoostNext /\ UNCHANGED <<kgvars, pvars, bvars, ivars, nvars, cvars, mvars>>]_vars

\* ------------------------------------------------------------------------
\* Notions used by the properties
\* ------------------------------------------------------------------------
\* the elements of a sequence
Range(s) == {s[i] : i \in DOMAIN s}

\* ------------------------------------------------------------------------
\* Properties of the accumulator
\* ------------------------------------------------------------------------
Triple(e) == <<e.Source, e.Type, e.Target>>

\* the edges of the graph between the nodes of two labels, of one type
EdgesFor(key) ==
    {e \in EdgesOf(g) : /\ e.Source = LookupNodeID(g, key[1])
                        /\ e.Type = key[2]
                        /\ e.Target = LookupNodeID(g, key[3])}

\* C1: AddDocument is idempotent per document ID.  When a call for a
\* document whose ID was passed to an earlier call is about to return, the
\* nodes, every node's Sources, the edges and every edge weight are what
\* they were when the call began, and the call returns no error.
C1_AddDocumentIdempotent ==
    \A t \in Goroutines :
        (kpc[t] = "add_unlock" /\ kdoc[t].ID # NilID /\ ~entry[t].first)
            => (GraphContent(g) = entry[t].graph /\ kret[t] = "nil")

C1_Witness ==
    \E t \in Goroutines :
        /\ kpc[t] = "add_unlock" /\ kdoc[t].ID # NilID /\ ~entry[t].first
        /\ entry[t].graph.Nodes # {} /\ entry[t].graph.Edges # {}

\* C2: one node per distinct entity label folded.  The label index is
\* injective, its domain is the set of labels folded so far, it points at
\* existing nodes carrying that label, and there are as many nodes as
\* distinct labels.
C2_OneNodePerLabel ==
    /\ DOMAIN g.nodeIDMap = seenLabels
    /\ \A l1, l2 \in DOMAIN g.nodeIDMap :
          g.nodeIDMap[l1] = g.nodeIDMap[l2] => l1 = l2
    /\ \A l \in DOMAIN g.nodeIDMap :
          /\ g.nodeIDMap[l] \in DOMAIN g.nodes
          /\ g.nodes[g.nodeIDMap[l]].Label = l
    /\ Cardinality(DOMAIN g.nodes) = Cardinality(seenLabels)

C2_Witness ==
    /\ Cardinality(DOMAIN g.nodes) = 2
    /\ \E n \in NodesOf(g) :
          LET src == Elems(g.arrays, n.Sources)
          IN  /\ Len(src) >= 3
              /\ \E i, j \in DOMAIN src : src[i] # src[j]

\* C3: at most one edge per (source node ID, relation type, target node
\* ID), and as many edges as distinct triples folded: folding a triple
\* again adds no edge.
C3_OneEdgePerTriple ==
    /\ \A k1, k2 \in DOMAIN g.edges :
          Triple(g.edges[k1]) = Triple(g.edges[k2]) => k1 = k2
    /\ \A key \in DOMAIN obs : Cardinality(EdgesFor(key)) = 1
    /\ Cardinality(DOMAIN g.edges) = Cardinality(DOMAIN obs)

C3_Witness ==
    /\ Cardinality(DOMAIN g.edges) = 2
    /\ \A key \in DOMAIN obs : Len(obs[key]) >= 2

\* the weight the confidences observed for one triple, in order, give
RECURSIVE RunningWeight(_)
RunningWeight(cs) ==
    IF Len(cs) = 1 THEN Float(cs[1])
    ELSE FloatHalf(FloatAdd(RunningWeight(SubSeq(cs, 1, Len(cs) - 1)),
                            Float(cs[Len(cs)])))

\* C4: edge weight averaging.  The first observation of a triple gives the
\* edge the relationship's confidence as weight and every later one sets
\* weight = (oldWeight + newConfidence) / 2; confidences 0.8 and 0.6 for
\* DEPENDS_ON from "A" to "B", in either order, give weight 0.7.
C4_EdgeWeightAveraging ==
    \A key \in DOMAIN obs :
        \A e \in EdgesFor(key) :
            /\ e.Weight = RunningWeight(obs[key])
            /\ (Len(obs[key]) = 1 => e.Weight = Float(obs[key][1]))
            /\ (key = <<"A", DEPENDS_ON, "B">> /\ obs[key] \in {<<8, 6>>, <<6, 8>>})
                  => e.Weight = Float(7)

C4_Witness ==
    /\ <<"A", DEPENDS_ON, "B">> \in DOMAIN obs
    /\ obs[<<"A", DEPENDS_ON, "B">>] = <<6, 8>>
    /\ \E e \in EdgesFor(<<"A", DEPENDS_ON, "B">>) : e.Weight = Float(7)

\* C5: a relationship read while its From or To label has no node is
\* dropped.  The call still returns no error, every edge joins two existing
\* nodes, and a triple that was only ever dropped has no edge, also after a
\* later document has introduced the missing label.
C5_UnknownLabelDropped ==
    /\ \A t \in Goroutines :
          (kpc[t] = "add_unlock" /\ kdoc[t].ID # NilID) => kret[t] = "nil"
    /\ \A e \in EdgesOf(g) : e.Source \in DOMAIN g.nodes /\ e.Target \in DOMAIN g.nodes
    /\ \A key \in dropped : key \notin DOMAIN obs => EdgesFor(key) = {}

C5_Witness ==
    /\ \A t \in Goroutines : kpc[t] = "idle"
    /\ \E key \in dropped :
          /\ key \notin DOMAIN obs
          /\ key[1] \in DOMAIN g.nodeIDMap
          /\ key[3] \in DOMAIN g.nodeIDMap
          /\ EdgesFor(key) = {}

\* C6: Generate never observes a torn write.  Every snapshot Generate has
\* returned holds the nodes, Sources and edges the graph had after some
\* whole number of AddDocument calls.
C6_NoTornSnapshot ==
    \A t \in Goroutines : snapContent[t] \in committed

C6_Witness ==
    \E t \in Goroutines :
        /\ snapContent[t].Nodes # {} /\ snapContent[t].Edges # {}
        /\ snapContent[t] # GraphContent(g)
        /\ mutex.writer # "none"

\* C7: snapshot isolation.  What a returned KnowledgeGraphData shows (its
\* nodes, each node's Sources, its edges and their weights) stays what it
\* showed when Generate returned, whatever AddDocument does afterwards.
C7_SnapshotIsolation ==
    \A t \in Goroutines : Content(g.arrays, snap[t]) = snapContent[t]

\* a snapshot node shares its backing array with the live node, which has
\* since been appended to in place
C7_Witness ==
    \E t \in Goroutines : \E n \in snap[t].Nodes :
        /\ n.ID \in DOMAIN g.nodes
        /\ g.nodes[n.ID].Sources.arr = n.Sources.arr
        /\ g.nodes[n.ID].Sources.len > n.Sources.len

\* ------------------------------------------------------------------------
\* Properties of TextPipeline.Process
\* ------------------------------------------------------------------------
Returned == ppc = "idle" /\ pret.returned

\* C8: Process changes the caller's document only on full success.  While
\* a call runs, after it returned an error (a failed stage, no processors,
\* a nil document, a cancelled context) and after a panic, every field of
\* the caller's document is what it was when Process was called.
C8_DocChangedOnlyOnSuccess ==
    doc # entryDoc => (Returned /\ pret.err = NoError)

C8_Witness ==
    /\ Returned /\ pret.err # NoError
    /\ failed.cause # NoError /\ failed.stage >= 1
    /\ doc = entryDoc /\ doc # NilPtr

\* C9: the processors run in the order of AddProcessor, one after the
\* other.  The processor calls of one Process call start and return
\* alternately, stage 0 first; stage 0 is given the content and metadata
\* of the caller's document, stage i+1 starts after stage i has returned
\* without error and is given the content and metadata of the document
\* stage i returned; a successful call has run every stage.
C9_StagesInOrder ==
    /\ processors = added
    /\ \A k \in DOMAIN events :
          LET e == events[k]
          IN  /\ e.stage = (k - 1) \div 2
              /\ e.ev = IF k % 2 = 1 THEN "start" ELSE "return"
              /\ e.proc = entryProcs[e.stage + 1]
              /\ (e.ev = "start" /\ e.stage = 0) =>
                    /\ e.content = entryDoc.Content
                    /\ e.metadata = entryDoc.Metadata
              /\ (e.ev = "start" /\ e.stage > 0) =>
                    /\ events[k - 1].ev = "return"
                    /\ events[k - 1].err = NoError
                    /\ e.content = events[k - 1].doc.Content
                    /\ e.metadata = events[k - 1].doc.Metadata
    /\ \E n \in 0..Len(added) : entryProcs = SubSeq(added, 1, n)
    /\ (Returned /\ pret.err = NoError) => Len(events) = 2 * Len(entryProcs)

C9_Witness ==
    /\ Returned /\ pret.err = NoError
    /\ impl = "chan"
    /\ Len(entryProcs) = 3 /\ entryProcs[1] # entryProcs[2]
    /\ Len(events) = 6

NamesStage(err, i) == \E k \in DOMAIN err : err[k] = Digits[i + 1]

CarriesCause(err, cause) ==
    \E k \in DOMAIN err :
        /\ k + Len(cause) - 1 <= Len(err)
        /\ SubSeq(err, k, k + Len(cause) - 1) = cause

\* C10: when stage i fails (and the context is not cancelled), the error
\* Process returns names the index i and carries the cause the stage
\* failed with.
C10_StageErrorNamesIndex ==
    (Returned /\ failed.cause # NoError /\ ~ctxDone)
        => (NamesStage(pret.err, failed.stage) /\ CarriesCause(pret.err, failed.cause))

\* the same for the sequential body alone
C10_SequentialBodyNamesIndex ==
    (Returned /\ failed.cause # NoError /\ impl = "seq")
        => pret.err = StageError(failed.stage, failed.cause)

\* C16: cancellation is observed at stage boundaries.  When the context of a
\* call on a document, with processors configured, is cancelled before the
\* call or before its last stage has returned, no stage is started after
\* the cancellation, Process returns the context's error unchanged and the
\* document is what it was when Process was called.
C16_CancellationObserved ==
    (/\ Returned /\ entryDoc # NilPtr /\ entryProcs # <<>>
     /\ ctxDone /\ cancelledAt < 2 * Len(entryProcs)
     /\ failed.cause = NoError)
        => /\ \A k \in DOMAIN events : events[k].ev = "start" => k <= cancelledAt
           /\ pret.err = Canceled
           /\ doc = entryDoc

\* C17: a document whose MIME type is in no configured processor's
\* SupportedTypes fails fast: Process returns an error for it and no
\* processor is run on it.
C17_UnsupportedTypeFailsFast ==
    (/\ Returned /\ entryDoc # NilPtr /\ entryProcs # <<>>
     /\ \A i \in DOMAIN entryProcs : MimeOf(entryDoc) \notin SupportedTypes(entryProcs[i]))
        => /\ events = <<>>
           /\ pret.err \notin {NoError, Canceled}

\* C23: a successful Process leaves the document's ID as it was when
\* Process was called, whatever the processors returned
C23_ProcessPreservesID ==
    (Returned /\ pret.err = NoError) => doc.ID = entryDoc.ID

\* C24: in the channel-staged Process, called on a document, no stage and
\* no final read ever uses a nil document: what a stage is about to hand
\* to its processor is a document, and no goroutine of the call panics,
\* under every interleaving of the stages with a cancellation
C24_NoNilDocumentUsed ==
    (impl = "chan" /\ entryDoc # NilPtr) =>
        /\ ppc # "panic"
        /\ ppc = "chan_wait" =>
              \A k \in DOMAIN spc : spc[k] = "call" => sinput[k] # NilPtr

\* a stage of the channel-staged Process hands a nil document to its
\* processor call only after the context was cancelled
C24_NilOnlyAfterCancellation ==
    (impl = "chan" /\ entryDoc # NilPtr /\ ppc = "panic") => ctxDone

\* ------------------------------------------------------------------------
\* Properties of TextPipeline.BatchProcess
\* ------------------------------------------------------------------------
BatchReturned == bpc = "idle" /\ bret.returned

\* the documents of the batch whose errors made BatchProcess return
FailingBatch == (bi + 1)..bend

InProgress == {k \in DOMAIN tpc : tpc[k] \in {"run", "blocked"}}

BatchOf(k) == (k - 1) \div BatchSize

\* the state a document is in after every configured processor has run on
\* it in turn
IsProcessedState(d, orig, procs) ==
    /\ d # NilPtr
    /\ d.Content = orig.Content \o procs
    /\ d.Metadata = orig.Metadata \cup {procs[i] : i \in DOMAIN procs}
    /\ d.Entities = <<procs[Len(procs)]>>

\* C11: when documents of a batch fail, the error BatchProcess returns
\* contains the failure of every document of that batch that failed, not
\* only one of them.
C11_BatchErrorCarriesEveryFailure ==
    (BatchReturned /\ bret.err # NoError) =>
        \A k \in FailingBatch :
            terr[k] # NoError => CarriesCause(bret.err, terr[k])

\* C12: partial success.  When BatchProcess returns an error, every
\* document of the failing batch whose Process call succeeded is in its
\* processed state, the output of the last stage, and every document whose
\* Process call failed is what it was when BatchProcess was called.
C12_PartialSuccess ==
    (BatchReturned /\ bret.err # NoError) =>
        \A k \in FailingBatch :
            IF terr[k] = NoError
            THEN IsProcessedState(bdocs[k], bentry[k], entryProcs)
            ELSE bdocs[k] = bentry[k]

C12_Witness ==
    /\ BatchReturned /\ bret.err # NoError
    /\ \E j, k \in FailingBatch :
          /\ terr[j] = NoError /\ bdocs[j] # bentry[j]
          /\ StageFailure(terr[k])

\* C13: batch barrier.  A document of a later batch is handed to a
\* goroutine only after every document of every earlier batch has finished,
\* whatever the order in which the goroutines run.
C13_BatchBarrier ==
    \A j, k \in DOMAIN tpc :
        (tpc[k] # "none" /\ BatchOf(k) > BatchOf(j)) => tpc[j] = "done"

C13_Witness ==
    \E k \in DOMAIN tpc : BatchOf(k) = 1 /\ tpc[k] = "run"

\* C14: bounded concurrency.  At most 10 documents are in progress at any
\* moment, and 15 documents are split into a batch of 10 followed by a
\* batch of 5.
C14_BoundedConcurrency ==
    /\ Cardinality(InProgress) <= 10
    /\ Len(bdocs) = 15 => batches \in {<<>>, <<10>>, <<10, 5>>}
    /\ (Len(bdocs) = 15 /\ BatchReturned /\ bret.err = NoError) => batches = <<10, 5>>

C14_Witness ==
    /\ Len(bdocs) = 15
    /\ batches = <<10, 5>>
    /\ Cardinality(InProgress) = 5

\* C15: with no processors configured, Process returns the "no processors
\* configured" error for every document, and BatchProcess over a non-empty
\* list of documents returns an error that carries it.
C15_NoProcessorsIsAnError ==
    entryProcs = <<>> =>
        /\ \A k \in DOMAIN tpc : tpc[k] = "done" => terr[k] = NoProcessorsError
        /\ (BatchReturned /\ Len(bdocs) > 0) =>
              /\ bret.err # NoError
              /\ CarriesCause(bret.err, NoProcessorsError)

C15_Witness ==
    /\ entryProcs = <<>>
    /\ BatchReturned /\ Len(bdocs) = 15
    /\ bret.err = BatchError(NoProcessorsError)

\* C27: when BatchProcess returns, with or without an error, every document
\* passed to it has been processed and is completed or failed; none is left
\* pending
C27_NoDocumentLeftPending ==
    BatchReturned => \A k \in DOMAIN tpc : tpc[k] = "done"

\* no document is processed twice in one call: a document that has not
\* been handed to a goroutine is as it was passed in
C27_ProcessedAtMostOnce ==
    \A k \in DOMAIN tpc : tpc[k] = "none" => (bdocs[k] = bentry[k] /\ terr[k] = NoError)

\* C28: BatchProcess always returns: every call that has started returns,
\* however many documents of a batch fail
C28_BatchProcessReturns == (bpc # "idle") ~> BatchReturned

\* no goroutine is ever blocked reporting its error
C28_SendNeverBlocks == \A k \in DOMAIN tpc : tpc[k] # "blocked"

\* BatchProcess has returned after every document of a full batch reported
\* an error
C28_Witness ==
    /\ BatchReturned
    /\ Len(bdocs) = MaxDocs
    /\ Len(errors) = BatchSize

\* ------------------------------------------------------------------------
\* Properties of the ingestion flow
\* ------------------------------------------------------------------------
IngestDone ==
    /\ bpc = "idle" /\ bret.returned /\ bret.err = NoError
    /\ ipos = Len(bdocs) /\ kpc[Main] = "idle"

\* C18: end-to-end folding.  After BatchProcess has succeeded over n
\* documents built with pairwise distinct IDs, no AddDocument call of the
\* loop finds its document already seen, and when the loop is over the
\* accumulator has recorded n distinct document IDs and every entity label
\* of every document has a node.
C18_EveryDocumentFolded ==
    /\ (kpc[Main] = "add_unlock" /\ ipos > 0) => entry[Main].first
    /\ IngestDone =>
          /\ Cardinality(g.documentMap) = Len(bdocs)
          /\ \A k \in DOMAIN bdocs : \A i \in DOMAIN bdocs[k].Entities :
                bdocs[k].Entities[i] \in DOMAIN g.nodeIDMap

\* ------------------------------------------------------------------------
\* Properties of the NLPProcessor
\* ------------------------------------------------------------------------
\* C19: extraction determinism.  Two runs of the extractor on the same text
\* return the same entity list and the same relationship list, element for
\* element in the same order.
C19_ExtractionDeterministic ==
    Len(nout) = 2 =>
        /\ nout[1].entities = nout[2].entities
        /\ nout[1].relations = nout[2].relations

\* the relationship lists of two runs are the same
C19_RelationsDeterministic ==
    Len(nout) = 2 => nout[1].relations = nout[2].relations

\* C20: keyword bound.  The ranker returns at most 10 keywords, in
\* non-increasing order of score; for a text with k < 10 distinct candidate
\* nouns it returns exactly k keywords.
C20_KeywordBound ==
    rret.returned =>
        /\ Len(rret.keywords) <= 10
        /\ \A i, j \in DOMAIN rret.keywords :
              i < j => rret.keywords[i].Score >= rret.keywords[j].Score
        /\ Cardinality(Candidates(ntext)) < 10 =>
              Len(rret.keywords) = Cardinality(Candidates(ntext))

C20_Witness ==
    /\ rret.returned
    /\ Cardinality(Candidates(ntext)) = 11
    /\ Len(rret.keywords) = 10
    /\ \E i \in DOMAIN rret.keywords : i > 1 /\ rret.keywords[i].Score = rret.keywords[i - 1].Score

\* the nearest token of the patterns list among the `width` tokens before
\* (direction 0) or after (direction 1) position pos, 0 when there is none
NearestWithin(tokens, pos, direction, width) ==
    LET found == {i \in DOMAIN tokens :
                     /\ tokens[i] \in NearestEntityWords
                     /\ IF direction > 0 THEN i > pos /\ i <= pos + width
                        ELSE i < pos /\ i + width >= pos}
    IN  IF found = {} THEN 0
        ELSE IF direction > 0
        THEN CHOOSE i \in found : \A j \in found : i <= j
        ELSE CHOOSE i \in found : \A j \in found : i >= j

\* the relationships of a text are those of its verbs with a subject among
\* the `back` tokens before the verb and an object among the `forward`
\* tokens after it, from the nearest such subject to the nearest such object
RelationsFollowWindow(tokens, relations, back, forward) ==
    /\ \A r \in Range(relations) :
           \E p \in DOMAIN tokens :
               /\ IsVerbTag(Tag(tokens[p])) /\ IsTechnicalVerb(tokens[p])
               /\ NearestWithin(tokens, p, 0, back) # 0
               /\ NearestWithin(tokens, p, 1, forward) # 0
               /\ r.From = tokens[NearestWithin(tokens, p, 0, back)]
               /\ r.To = tokens[NearestWithin(tokens, p, 1, forward)]
    /\ \A p \in DOMAIN tokens :
           (/\ IsVerbTag(Tag(tokens[p])) /\ IsTechnicalVerb(tokens[p])
            /\ NearestWithin(tokens, p, 0, back) # 0
            /\ NearestWithin(tokens, p, 1, forward) # 0)
           => \E r \in Range(relations) :
                  /\ r.From = tokens[NearestWithin(tokens, p, 0, back)]
                  /\ r.To = tokens[NearestWithin(tokens, p, 1, forward)]

\* C29: for a recognized verb at position p the subject is the nearest
\* domain noun among p-1..p-5 and the object the nearest domain noun among
\* p+1..p+5, and a relationship is emitted exactly when both exist
C29_RelationSearchWindow ==
    (npc = "idle" /\ Len(nout) = 1) =>
        RelationsFollowWindow(ntext, nout[1].relations, 5, 5)

\* the same with 4 tokens after the verb
C29_ForwardWindowOfFour ==
    (npc = "idle" /\ Len(nout) = 1) =>
        RelationsFollowWindow(ntext, nout[1].relations, 5, 4)

\* 2.25 times a score, in quarters
StackedBoost(score) == (score * 9) \div 4

\* C30: after the boosts a word of the technical list only or of the
\* banking list only has 1.5 times its converged score, a word of both
\* lists 1.5 x 1.5 = 2.25 times, and a word of neither keeps its score
C30_BoostsStack ==
    wpc = "boosted" =>
        \A word \in DOMAIN wordScores :
            LET technical == \E term \in TechnicalPatterns : WordContains(word, term)
                banking == \E term \in BankingPatterns : WordContains(word, term)
            IN wordScores[word] =
                   IF technical /\ banking THEN StackedBoost(converged[word])
                   ELSE IF technical THEN Times(converged[word], TechnicalTermBoost)
                   ELSE IF banking THEN Times(converged[word], BankingTermBoost)
                   ELSE converged[word]

\* after the boosts every word has its converged score, or 1.5 times it
\* when a list matches it
C30_OneBoostAtMost ==
    wpc = "boosted" =>
        \A word \in DOMAIN wordScores :
            wordScores[word] =
                IF \E term \in TechnicalPatterns \cup BankingPatterns :
                       WordContains(word, term)
                THEN Times(converged[word], TechnicalTermBoost)
                ELSE converged[word]

\* ------------------------------------------------------------------------
\* Properties of the coreference resolver
\* ------------------------------------------------------------------------
\* the sentences the resolver is to search for the pronoun at idx: the
\* pronoun's own sentence and the 3 sentences before it
Window(sentences, label) ==
    LET containing == ContainingSentence(sentences, label)
    IN {i \in DOMAIN sentences : i <= containing /\ i + 3 >= containing}

\* a named entity of the list that agrees with the pronoun and is named in
\* a sentence of the pronoun's window
HasAntecedentInWindow(entities, sentences, idx) ==
    \E k \in DOMAIN entities :
        /\ ~isPronoun(entities[k].Label)
        /\ canBeCoreferent(entities[idx].Label, entities[k].Label)
        /\ \E i \in Window(sentences, entities[idx].Label) :
               StringsContains(sentences[i], entities[k].Label)

C21_NamedEntitiesPassThrough ==
    cret.returned =>
        /\ Len(cret.entities) = Len(centities)
        /\ \A idx \in DOMAIN centities :
               ~isPronoun(centities[idx].Label) => cret.entities[idx] = centities[idx]

\* ------------------------------------------------------------------------
\* Properties of MemoryKnowledgeGraph
\* ------------------------------------------------------------------------
Incident(edge, id) == edge.Source = id \/ edge.Target = id

\* s without its elements of the set drop, order kept
RECURSIVE Without(_, _)
Without(s, drop) ==
    IF s = <<>> THEN <<>>
    ELSE (IF Head(s) \in drop THEN <<>> ELSE <<Head(s)>>) \o Without(Tail(s), drop)

\* C22: a successful DeleteEntity(id) removes the node id and every edge
\* incident to it and keeps every other node and edge; DeleteEntity of an
\* unknown id returns an error and changes nothing
C22_DeleteEntityCascades ==
    mlast.op = "DeleteEntity" =>
        LET before == mlast.before
            id == mlast.arg
        IN IF id \in DOMAIN before.nodeMap
           THEN /\ mlast.err = NoError
                /\ id \notin DOMAIN mg.nodeMap
                /\ DOMAIN mg.nodeMap = DOMAIN before.nodeMap \ {id}
                /\ \A n \in Range(MemNodes(mg)) : n.ID # id
                /\ \A e \in Range(mg.Edges) : ~Incident(e, id)
                /\ \A r \in MemRelations :
                       (r.From = id \/ r.To = id) =>
                           EdgeID(r.From, r.Type, r.To) \notin mg.edgeMap
                /\ MemNodes(mg) =
                       Without(MemNodes(before), {n \in Range(MemNodes(before)) : n.ID = id})
                /\ mg.Edges =
                       Without(before.Edges, {e \in Range(before.Edges) : Incident(e, id)})
           ELSE /\ mlast.err = EntityNotFound(id)
                /\ mg = before

\* a node with an incident edge has been deleted; another node and an edge
\* between other nodes are still there
C22_Witness ==
    /\ mlast.op = "DeleteEntity"
    /\ mlast.err = NoError
    /\ \E e \in Range(mlast.before.Edges) : Incident(e, mlast.arg)
    /\ Len(mg.Edges) >= 1
    /\ mg.Nodes.len >= 1

\* the entity GetEntity(id) is to return for a node that was added
ExpectedEntity(id) ==
    [ID |-> id, Label |-> madded[id].Label, Type |-> madded[id].Type]

\* C25: GetEntity(id) for an id that was added and not deleted returns the
\* entity with this ID and the label and type it was added with, and
\* GetRelatedEntities returns only such entities
C25_IndexPointsAtOwnNode ==
    /\ (mlast.op = "GetEntity" /\ mlast.arg \in DOMAIN mg.nodeMap) =>
           /\ mlast.err = NoError
           /\ mlast.result = <<ExpectedEntity(mlast.arg)>>
    /\ mlast.op = "GetRelatedEntities" =>
           \A e \in Range(mlast.result) :
               /\ e.ID \in DOMAIN mg.nodeMap
               /\ e = ExpectedEntity(e.ID)

\* C26: the IDs of the edge index are the IDs of the edges of the edge
\* list, and after a successful DeleteRelationship(id) no edge of the list
\* has this ID
C26_EdgeIndexMatchesList ==
    /\ mg.edgeMap = {e.ID : e \in Range(mg.Edges)}
    /\ (mlast.op = "DeleteRelationship" /\ mlast.err = NoError) =>
           \A e \in Range(mg.Edges) : e.ID # mlast.arg

\* every key of the edge index is the ID of an edge of the list
C26_IndexWithinList == mg.edgeMap \subseteq {e.ID : e \in Range(mg.Edges)}

====
